---------------------------- MODULE Spec2Model ----------------------------
(***************************************************************************)
(* FlowDNS: the DHCPv4 lease engine (lease store queries, allocator,       *)
(* per-message handlers, expiration tick, administrative mutations) and    *)
(* the receive loops of the DHCPv4 and DHCPv6 servers.                     *)
(*                                                                         *)
(* Spec      the lease engine: one action per packet handler, per admin    *)
(*           mutation, the expiration tick and the clock.                  *)
(* SpecLoop  the two receive loops (DhcpServer::run, Dhcpv6Server::run):   *)
(*           how received packets become handler executions.               *)
(***************************************************************************)
EXTENDS Integers, Sequences, FiniteSets, TLC

(***************************************************************************)
(* Bounds of the model.                                                    *)
(***************************************************************************)
MaxTime == 2
MaxPackets == 3

(***************************************************************************)
(* Addresses are u32 values, as u32::from(Ipv4Addr).                       *)
(***************************************************************************)
Ip(a, b, c, d) == ((a * 256 + b) * 256 + c) * 256 + d

UNSPECIFIED == Ip(0, 0, 0, 0)

Pow2(n) == 2 ^ n

\* IpNetwork: [ip, prefix]; the number of addresses of the network
NetSize(net) == Pow2(32 - net.prefix)

\* IpNetwork::ip(): the address the network was declared with
NetworkIp(net) == net.ip

\* IpNetwork::network()
NetworkAddr(net) == (net.ip \div NetSize(net)) * NetSize(net)

NetworkBroadcast(net) == NetworkAddr(net) + NetSize(net) - 1

NetworkContains(net, ip) == (ip \div NetSize(net)) = (net.ip \div NetSize(net))

(***************************************************************************)
(* The subnets loaded at start-up (LeaseManager::load_subnets); the map is *)
(* never reloaded.  Both are /30 networks: .0 the network address, .1 the   *)
(* gateway (and relay agent), .2 the one allocable host, .3 the broadcast  *)
(* address.  The range of subnet 1 ends on its broadcast address, and its  *)
(* lease_duration is the shorter one.                                      *)
(***************************************************************************)
Subnets ==
    { [id |-> 1, network |-> [ip |-> Ip(10, 0, 1, 0), prefix |-> 30],
       start_ip |-> Ip(10, 0, 1, 2), end_ip |-> Ip(10, 0, 1, 3),
       gateway |-> Ip(10, 0, 1, 1), lease_duration |-> 1],
      [id |-> 2, network |-> [ip |-> Ip(10, 0, 2, 0), prefix |-> 30],
       start_ip |-> Ip(10, 0, 2, 2), end_ip |-> Ip(10, 0, 2, 2),
       gateway |-> Ip(10, 0, 2, 1), lease_duration |-> 2] }

SubnetIds == { s.id : s \in Subnets }

SubnetById(id) == CHOOSE s \in Subnets : s.id = id

\* two clients, by MAC address
MACs == {1, 2}

\* Option<T> is a set with at most one element.
None == {}

Some(x) == {x}

Unwrap(o) == CHOOSE x \in o : TRUE

\* n zero bytes
Zeros(n) == [i \in 1 .. n |-> 0]

RECURSIVE from_be_bytes(_)
\* u16::from_be_bytes, u32::from_be_bytes
from_be_bytes(bs) ==
    IF bs = <<>> THEN 0
    ELSE from_be_bytes(SubSeq(bs, 1, Len(bs) - 1)) * 256 + bs[Len(bs)]

\* put_u16, put_u32: the w bytes of n, most significant first
to_be_bytes(n, w) == [i \in 1 .. w |-> (n \div (256 ^ (w - i))) % 256]

VARIABLES
    now,           \* the clock (Utc::now(), NOW()), in seconds
    leases,        \* table dhcp_leases: a set of rows
    reservations,  \* table dhcp_reservations: a set of rows
    last,          \* the reply sent last (socket.send_to), with whom it answers
    rxq,           \* DHCPv4 socket: datagrams received and not yet read
    cur,           \* DHCPv4 loop: the packet whose handler is being awaited
    done4,         \* DHCPv4 loop: packets whose handling has finished, in order
    rxq6,          \* DHCPv6 socket: datagrams received and not yet read
    tasks6,        \* DHCPv6 loop: spawned handler tasks not yet finished
    sent6,         \* DHCPv6 loop: replies sent, in order
    nrecv,         \* datagrams put on the two sockets so far
    serial_number, \* table dns_zones: column serial_number, by zone id
    dns_records,   \* table dns_records: a set of rows
    inflight,      \* record handlers that have read the clock for the serial
                   \* and whose UPDATE dns_zones has not run yet
    dnsres,        \* the lease event handled last by DhcpDnsIntegration, and
                   \* the Result it returned
    bindings6,     \* the DHCPv6 bindings the store holds
    delegations,   \* table ipv6_delegated_prefixes: a set of rows
    arg,           \* a call of a function that keeps no state of its own:
                   \* which function, and its argument
    ret,           \* what that call returned, once it has returned
    cleanup_task,  \* the task spawned in DhcpServer::run for the cleanup loop
    recv_task,     \* DhcpServer::run's receive loop
    renewing,      \* renew_lease between its SELECT and its UPDATE: the
                   \* packet and the row the SELECT returned
    errs4          \* DHCPv4 packets whose handler returned Err, with what
                   \* was sent for them

coreVars == <<now, leases, reservations, last>>

loopVars == <<rxq, cur, done4, rxq6, tasks6, sent6, nrecv>>

dnsVars == <<serial_number, dns_records, inflight, dnsres>>

callVars == <<arg, ret>>

v6Vars == <<bindings6, delegations>>

taskVars == <<cleanup_task, recv_task, renewing, errs4>>

vars == <<now, leases, reservations, last, rxq, cur, done4, rxq6, tasks6, sent6, nrecv,
          serial_number, dns_records, inflight, dnsres, arg, ret,
          bindings6, delegations, cleanup_task, recv_task, renewing, errs4>>

(***************************************************************************)
(* Lease store queries (lease_manager_queries.rs).  Each takes the tables  *)
(* and the time it reads.                                                  *)
(***************************************************************************)
\* Fault: the count without "AND lease_end > NOW()"
count_active_leases_any_end(ls, t, subnet_id, ip) ==
    Cardinality({ l \in ls : /\ l.subnet_id = subnet_id
                             /\ l.ip = ip
                             /\ l.state = "active" })

\* COUNT(*) WHERE subnet_id AND ip_address AND state = 'active' AND lease_end > NOW()
count_active_leases(ls, t, subnet_id, ip) ==
    Cardinality({ l \in ls : /\ l.subnet_id = subnet_id
                             /\ l.ip = ip
                             /\ l.state = "active"
                             /\ l.lease_end > t })

\* COUNT(*) FROM dhcp_reservations WHERE subnet_id AND ip_address
count_reservations(rs, subnet_id, ip) ==
    Cardinality({ r \in rs : r.subnet_id = subnet_id /\ r.ip = ip })

\* SELECT * FROM dhcp_reservations WHERE subnet_id AND mac_address (fetch_optional)
get_reservation(rs, subnet_id, mac) ==
    LET hit == { r \in rs : r.subnet_id = subnet_id /\ r.mac = mac }
    IN  IF hit = {} THEN None ELSE Some(CHOOSE r \in hit : TRUE)

\* WHERE mac_address AND state = 'active' AND lease_end > NOW()
\* ORDER BY lease_end DESC LIMIT 1
get_active_lease_by_mac(ls, t, mac) ==
    LET hit == { l \in ls : l.mac = mac /\ l.state = "active" /\ l.lease_end > t }
    IN  IF hit = {} THEN None
        ELSE Some(CHOOSE l \in hit : \A o \in hit : o.lease_end <= l.lease_end)

\* WHERE mac_address AND ip_address AND state = 'active' (fetch_optional)
find_active_lease_by_mac_and_ip(ls, mac, ip) ==
    LET hit == { l \in ls : l.mac = mac /\ l.ip = ip /\ l.state = "active" }
    IN  IF hit = {} THEN None ELSE Some(CHOOSE l \in hit : TRUE)

\* The row id: a row is inserted once per MAC and keeps its id through
\* every ON CONFLICT update, so the MAC identifies the row.
LeaseId(l) == l.mac

\* Fault: the INSERT without "ON CONFLICT (mac_address) DO UPDATE"
insert_lease_no_conflict(ls, subnet_id, mac, ip, lease_end) ==
    ls \cup { [mac |-> mac, subnet_id |-> subnet_id, ip |-> ip,
               lease_end |-> lease_end, state |-> "active"] }

\* INSERT ... VALUES (..., 'active') ON CONFLICT (mac_address) DO UPDATE SET ...
insert_or_update_lease(ls, subnet_id, mac, ip, lease_end) ==
    { l \in ls : l.mac # mac }
        \cup { [mac |-> mac, subnet_id |-> subnet_id, ip |-> ip,
                lease_end |-> lease_end, state |-> "active"] }

\* UPDATE dhcp_leases SET lease_end = $1 WHERE id = $2
update_lease_end(ls, lease_id, new_lease_end) ==
    { IF LeaseId(l) = lease_id THEN [l EXCEPT !.lease_end = new_lease_end] ELSE l
      : l \in ls }

\* Fault: the UPDATE without "mac_address = $1"
release_lease_any_mac(ls, mac, ip) ==
    { IF l.ip = ip /\ l.state = "active"
      THEN [l EXCEPT !.state = "released"] ELSE l
      : l \in ls }

\* UPDATE ... SET state = 'released' WHERE mac_address AND ip_address AND state = 'active'
release_lease(ls, mac, ip) ==
    { IF l.mac = mac /\ l.ip = ip /\ l.state = "active"
      THEN [l EXCEPT !.state = "released"] ELSE l
      : l \in ls }

\* UPDATE ... SET state = 'expired' WHERE state = 'active' AND lease_end < NOW()
expire_old_leases(ls, t) ==
    { IF l.state = "active" /\ l.lease_end < t
      THEN [l EXCEPT !.state = "expired"] ELSE l
      : l \in ls }

(***************************************************************************)
(* LeaseManager (lease_manager.rs).                                        *)
(***************************************************************************)
\* relay_agent_ip.unwrap_or(client_ip), then the first subnet containing it
find_subnet_for_client(client_ip, relay_agent_ip) ==
    LET target_ip == IF relay_agent_ip = None THEN client_ip ELSE Unwrap(relay_agent_ip)
        hit == { s \in Subnets : NetworkContains(s.network, target_ip) }
    IN  IF hit = {} THEN None ELSE Some(CHOOSE s \in hit : TRUE)

is_ip_in_use(ls, rs, t, subnet_id, ip) ==
    IF count_active_leases(ls, t, subnet_id, ip) > 0 THEN TRUE
    ELSE count_reservations(rs, subnet_id, ip) > 0

\* for ip_num in start..=end: skip network and broadcast, return the first not in use
RECURSIVE ScanRange(_, _, _, _, _)
ScanRange(ls, rs, t, subnet, ip_num) ==
    IF ip_num > subnet.end_ip THEN None
    ELSE IF \/ ip_num = NetworkIp(subnet.network)
            \/ ip_num = NetworkBroadcast(subnet.network)
         THEN ScanRange(ls, rs, t, subnet, ip_num + 1)
         ELSE IF ~ is_ip_in_use(ls, rs, t, subnet.id, ip_num)
              THEN Some(ip_num)
              ELSE ScanRange(ls, rs, t, subnet, ip_num + 1)

find_available_ip(ls, rs, t, subnet_id, mac) ==
    LET subnet == SubnetById(subnet_id)
        reservation == get_reservation(rs, subnet_id, mac)
        lease == get_active_lease_by_mac(ls, t, mac)
    IN  IF reservation # None THEN Some(Unwrap(reservation).ip)
        ELSE IF lease # None /\ Unwrap(lease).subnet_id = subnet_id
             THEN Some(Unwrap(lease).ip)
             ELSE ScanRange(ls, rs, t, subnet, subnet.start_ip)

\* lease_end = Utc::now() + subnet.lease_duration, then the upsert
create_lease(ls, t, subnet_id, mac, ip) ==
    insert_or_update_lease(ls, subnet_id, mac, ip,
                           t + SubnetById(subnet_id).lease_duration)

\* Fault: new_lease_end = Utc::now(), the lease duration left out
renew_lease_no_duration(ls, t, mac, requested_ip) ==
    LET existing == find_active_lease_by_mac_and_ip(ls, mac, requested_ip)
    IN  IF existing # None
        THEN LET lease == Unwrap(existing)
                 new_lease_end == t
             IN  [renewed |-> Some([lease EXCEPT !.lease_end = new_lease_end]),
                  leases |-> update_lease_end(ls, LeaseId(lease), new_lease_end)]
        ELSE [renewed |-> None, leases |-> ls]

\* Some(lease) and the table after update_lease_end, or None and the table as it was
renew_lease(ls, t, mac, requested_ip) ==
    LET existing == find_active_lease_by_mac_and_ip(ls, mac, requested_ip)
    IN  IF existing # None
        THEN LET lease == Unwrap(existing)
                 new_lease_end == t + SubnetById(lease.subnet_id).lease_duration
             IN  [renewed |-> Some([lease EXCEPT !.lease_end = new_lease_end]),
                  leases |-> update_lease_end(ls, LeaseId(lease), new_lease_end)]
        ELSE [renewed |-> None, leases |-> ls]


(***************************************************************************)
(* DHCPv4 packets as the handlers read them (packet.rs accessors): the     *)
(* message type (option 53), chaddr, giaddr, the datagram's source         *)
(* address, ciaddr and option 50.                                          *)
(***************************************************************************)
Relays == { s.gateway : s \in Subnets }

Giaddrs == {UNSPECIFIED} \cup Relays

\* a directly attached client of subnet 1 sending from its own address
ClientSrc == Ip(10, 0, 1, 2)

\* addresses a client may name: every address of the ranges
ClientIps == UNION { s.start_ip .. s.end_ip : s \in Subnets }

Packet(type, mac, giaddr, src, ciaddr, requested_ip) ==
    [type |-> type, mac |-> mac, giaddr |-> giaddr, src |-> src,
     ciaddr |-> ciaddr, requested_ip |-> requested_ip]

\* a relayed datagram comes from the relay, a direct one from the client
SrcOf(giaddr) == IF giaddr = UNSPECIFIED THEN ClientSrc ELSE giaddr

DiscoverPkts ==
    { Packet("DISCOVER", m, g, SrcOf(g), UNSPECIFIED, None) :
        m \in MACs, g \in Giaddrs }

\* relayed: selecting (option 50) through either relay, and renewing (ciaddr)
\* through the relay of subnet 1, also with no address named at all;
\* not relayed: renewing by unicast from the leased address (giaddr 0.0.0.0)
RequestPkts ==
    { Packet("REQUEST", m, g, SrcOf(g), UNSPECIFIED, Some(ip)) :
        m \in MACs, g \in Relays, ip \in ClientIps }
    \cup { Packet("REQUEST", m, SubnetById(1).gateway, SubnetById(1).gateway, ip, None) :
        m \in MACs, ip \in {UNSPECIFIED, ClientSrc} }
    \cup { Packet("REQUEST", m, UNSPECIFIED, ClientSrc, ClientSrc, None) :
        m \in MACs }

\* the allocable hosts
HostIps == { s.start_ip : s \in Subnets }

ReleasePkts ==
    { Packet("RELEASE", m, UNSPECIFIED, ip, ip, None) :
        m \in MACs, ip \in HostIps \cup {UNSPECIFIED} }

DeclinePkts ==
    { Packet("DECLINE", m, UNSPECIFIED, UNSPECIFIED, UNSPECIFIED, o) :
        m \in MACs, o \in { Some(ip) : ip \in HostIps } \cup {None} }

InformPkts ==
    { Packet("INFORM", m, UNSPECIFIED, ClientSrc, ClientSrc, None) : m \in MACs }

\* message types a client has no business sending, and one the server does
\* not know
OtherPkts ==
    { Packet(ty, m, UNSPECIFIED, ClientSrc, UNSPECIFIED, None) :
        ty \in {"OFFER", "ACK", "NAK", "UNKNOWN"}, m \in MACs }

(***************************************************************************)
(* DhcpServer handlers (server.rs).  A handler maps the tables, the time   *)
(* and the packet to the tables it leaves and the reply it sends.          *)
(***************************************************************************)
Reply(type, yiaddr) == [type |-> type, yiaddr |-> yiaddr]

NoReply == Reply("NONE", UNSPECIFIED)

\* packet.giaddr.into(): Ipv4Addr into Option<Ipv4Addr>
GiaddrInto(giaddr) == Some(giaddr)

(***************************************************************************)
(* The options of a reply (server.rs, options.rs).  An option is its code  *)
(* and its data bytes; a reply's options are kept in the order they were   *)
(* pushed.                                                                 *)
(***************************************************************************)
\* settings.dhcp.bind_address, parsed in DhcpServer::new
server_ip == Ip(10, 0, 0, 9)

\* DhcpMessageType as u8
MessageTypeCode(msg_type) ==
    CASE msg_type = "OFFER" -> 2
      [] msg_type = "ACK"   -> 5
      [] msg_type = "NAK"   -> 6

DhcpOption(code, data) == [code |-> code, data |-> data]

\* Ipv4Addr::octets
Octets(ip) == to_be_bytes(ip, 4)

\* set_message_type, then set_server_id, on a packet with no options yet:
\* the options of a fresh reply, by message type
ReplyOptions ==
    [msg_type \in {"OFFER", "ACK", "NAK"} |->
        << DhcpOption(53, <<MessageTypeCode(msg_type)>>),
           DhcpOption(54, Octets(server_ip)) >>]

create_reply_packet(msg_type) == ReplyOptions[msg_type]

\* x * k in i32: the product's upper and lower 16 bits, the upper ones not
\* yet reduced
MulHigh(x, k) == (x \div 65536) * k + ((x % 65536) * k) \div 65536

MulLow(x, k) == ((x % 65536) * k) % 65536

\* the product does not fit an i32: a panic where overflow checks are on
MulOverflows(x, k) == MulHigh(x, k) < -32768 \/ MulHigh(x, k) > 32767

\* the product where overflow checks are off: reduced modulo 2^32 into i32
wrapping_mul(x, k) ==
    LET high == MulHigh(x, k) % 65536
    IN  (IF high >= 32768 THEN high - 65536 ELSE high) * 65536 + MulLow(x, k)

\* i32 division: the quotient rounded toward zero
I32Div(a, b) == IF a >= 0 THEN a \div b ELSE -((-a) \div b)

\* (x as u32).to_be_bytes(): the two's complement bytes of an i32
AsU32Bytes(x) ==
    to_be_bytes((x \div 65536) % 65536, 2) \o to_be_bytes(x % 65536, 2)

\* network.netmask(), as octets
calculate_subnet_mask(network) ==
    [i \in 1 .. 4 |->
        LET left == network.prefix - 8 * (i - 1)
            bits == IF left < 0 THEN 0 ELSE IF left > 8 THEN 8 ELSE left
        IN  256 - Pow2(8 - bits)]

\* network.broadcast()
calculate_broadcast(network) == NetworkBroadcast(network)

\* the two ways the crate is built: overflow checks on (dev) and off (release)
OverflowChecks == {TRUE, FALSE}

\* None stands for the panic of "lease_duration * 7".  The subnets of the
\* model have no dns_servers and no domain_name.
build_subnet_options(subnet, overflow_checks) ==
    IF overflow_checks /\ MulOverflows(subnet.lease_duration, 7) THEN None
    ELSE Some(<< DhcpOption(1, calculate_subnet_mask(subnet.network)),
                 DhcpOption(3, Octets(subnet.gateway)),
                 DhcpOption(28, Octets(calculate_broadcast(subnet.network))),
                 DhcpOption(51, AsU32Bytes(subnet.lease_duration)),
                 DhcpOption(58, AsU32Bytes(I32Div(subnet.lease_duration, 2))),
                 DhcpOption(59, AsU32Bytes(
                     I32Div(wrapping_mul(subnet.lease_duration, 7), 8))) >>)

\* the options a handler extends its reply with: the durations of the loaded
\* subnets are far from overflowing, so both builds yield the same options
LoadedSubnetOptions ==
    [subnet \in Subnets |-> Unwrap(build_subnet_options(subnet, FALSE))]

SubnetOptions(subnet) == LoadedSubnetOptions[subnet]

\* "if let Some(subnet) = ...": the subnet's options, or none at all
OptionsIfSubnet(subnet) ==
    IF subnet = None THEN <<>> ELSE SubnetOptions(Unwrap(subnet))

\* create_reply_packet(&packet, Nak), send_reply
send_nak == Reply("NAK", UNSPECIFIED)

\* Fault: the offered address persisted as a lease when the OFFER is sent
handle_discover_persist_offer(ls, rs, t, p) ==
    LET subnet == find_subnet_for_client(p.src, GiaddrInto(p.giaddr))
    IN  IF subnet = None THEN [leases |-> ls, reply |-> NoReply, options |-> <<>>]
        ELSE LET ip == find_available_ip(ls, rs, t, Unwrap(subnet).id, p.mac)
             IN  IF ip = None THEN [leases |-> ls, reply |-> NoReply, options |-> <<>>]
                 ELSE [leases |-> create_lease(ls, t, Unwrap(subnet).id,
                                               p.mac, Unwrap(ip)),
                       reply |-> Reply("OFFER", Unwrap(ip)),
                       options |-> create_reply_packet("OFFER")
                                     \o SubnetOptions(Unwrap(subnet))]

handle_discover(ls, rs, t, p) ==
    LET subnet == find_subnet_for_client(p.src, GiaddrInto(p.giaddr))
    IN  IF subnet = None THEN [leases |-> ls, reply |-> NoReply, options |-> <<>>]
        ELSE LET ip == find_available_ip(ls, rs, t, Unwrap(subnet).id, p.mac)
             IN  IF ip = None THEN [leases |-> ls, reply |-> NoReply, options |-> <<>>]
                 ELSE [leases |-> ls, reply |-> Reply("OFFER", Unwrap(ip)),
                       options |-> create_reply_packet("OFFER")
                                     \o SubnetOptions(Unwrap(subnet))]

\* packet.get_requested_ip().or(Some(packet.ciaddr)).filter(|ip| ip != UNSPECIFIED)
RequestTarget(p) ==
    LET o == IF p.requested_ip # None THEN p.requested_ip ELSE Some(p.ciaddr)
    IN  { ip \in o : ip # UNSPECIFIED }

\* Fault: "available_ip.is_none()" tested in place of
\* "available_ip != Some(requested_ip)"
handle_request_any_available(ls, rs, t, p) ==
    LET target == RequestTarget(p)
    IN  IF target = None THEN [leases |-> ls, reply |-> send_nak,
                  options |-> create_reply_packet("NAK")]
        ELSE
        LET requested_ip == Unwrap(target)
            renewal == renew_lease(ls, t, p.mac, requested_ip)
        IN  IF renewal.renewed # None
            THEN [leases |-> renewal.leases,
                  reply |-> Reply("ACK", Unwrap(renewal.renewed).ip),
                  options |-> create_reply_packet("ACK")
                      \o OptionsIfSubnet(find_subnet_for_client(
                             requested_ip, GiaddrInto(p.giaddr)))]
            ELSE
            LET subnet == find_subnet_for_client(requested_ip, GiaddrInto(p.giaddr))
            IN  IF subnet = None THEN [leases |-> ls, reply |-> send_nak,
                  options |-> create_reply_packet("NAK")]
                ELSE
                LET available_ip ==
                        find_available_ip(ls, rs, t, Unwrap(subnet).id, p.mac)
                IN  IF available_ip = None
                    THEN [leases |-> ls, reply |-> send_nak,
                  options |-> create_reply_packet("NAK")]
                    ELSE [leases |-> create_lease(ls, t, Unwrap(subnet).id,
                                                  p.mac, requested_ip),
                          reply |-> Reply("ACK", requested_ip),
                          options |-> create_reply_packet("ACK")
                                        \o SubnetOptions(Unwrap(subnet))]

handle_request(ls, rs, t, p) ==
    LET target == RequestTarget(p)
    IN  IF target = None THEN [leases |-> ls, reply |-> send_nak,
                  options |-> create_reply_packet("NAK")]
        ELSE
        LET requested_ip == Unwrap(target)
            renewal == renew_lease(ls, t, p.mac, requested_ip)
        IN  IF renewal.renewed # None
            THEN [leases |-> renewal.leases,
                  reply |-> Reply("ACK", Unwrap(renewal.renewed).ip),
                  options |-> create_reply_packet("ACK")
                      \o OptionsIfSubnet(find_subnet_for_client(
                             requested_ip, GiaddrInto(p.giaddr)))]
            ELSE
            LET subnet == find_subnet_for_client(requested_ip, GiaddrInto(p.giaddr))
            IN  IF subnet = None THEN [leases |-> ls, reply |-> send_nak,
                  options |-> create_reply_packet("NAK")]
                ELSE
                LET available_ip ==
                        find_available_ip(ls, rs, t, Unwrap(subnet).id, p.mac)
                IN  IF available_ip # Some(requested_ip)
                    THEN [leases |-> ls, reply |-> send_nak,
                  options |-> create_reply_packet("NAK")]
                    ELSE [leases |-> create_lease(ls, t, Unwrap(subnet).id,
                                                  p.mac, requested_ip),
                          reply |-> Reply("ACK", requested_ip),
                          options |-> create_reply_packet("ACK")
                                        \o SubnetOptions(Unwrap(subnet))]

handle_release(ls, rs, t, p) ==
    IF p.ciaddr = UNSPECIFIED THEN [leases |-> ls, reply |-> NoReply, options |-> <<>>]
    ELSE [leases |-> release_lease(ls, p.mac, p.ciaddr), reply |-> NoReply, options |-> <<>>]

\* "For now, just release the lease"
handle_decline(ls, rs, t, p) ==
    LET ip == IF p.requested_ip = None THEN UNSPECIFIED ELSE Unwrap(p.requested_ip)
    IN  IF ip # UNSPECIFIED
        THEN [leases |-> release_lease(ls, p.mac, ip), reply |-> NoReply, options |-> <<>>]
        ELSE [leases |-> ls, reply |-> NoReply, options |-> <<>>]

\* an ACK with yiaddr 0.0.0.0, whether or not a subnet is found
handle_inform(ls, rs, t, p) ==
    [leases |-> ls, reply |-> Reply("ACK", UNSPECIFIED),
     options |-> create_reply_packet("ACK")
                   \o OptionsIfSubnet(find_subnet_for_client(
                          p.ciaddr, GiaddrInto(p.giaddr)))]

\* match msg_type { Discover, Request, Release, Inform, Decline, _ }
handle_packet(ls, rs, t, p) ==
    CASE p.type = "DISCOVER" -> handle_discover(ls, rs, t, p)
      [] p.type = "REQUEST"  -> handle_request(ls, rs, t, p)
      [] p.type = "RELEASE"  -> handle_release(ls, rs, t, p)
      [] p.type = "INFORM"   -> handle_inform(ls, rs, t, p)
      [] p.type = "DECLINE"  -> handle_decline(ls, rs, t, p)
      [] OTHER               -> [leases |-> ls, reply |-> NoReply, options |-> <<>>]

(***************************************************************************)
(* Where send_reply sends: the request's flags word carries the broadcast  *)
(* bit, the reply carries the request's giaddr.                            *)
(***************************************************************************)
\* the flags words a client sends: broadcast bit clear, broadcast bit set
Flags == {0, 32768}

\* (self.flags & 0x8000) != 0
is_broadcast(flags) == (flags \div 32768) % 2 = 1

\* 255.255.255.255:68, or giaddr:67
send_reply(giaddr, broadcast) ==
    IF broadcast \/ giaddr = UNSPECIFIED
    THEN [to |-> "BROADCAST", ip |-> UNSPECIFIED, port |-> 68]
    ELSE [to |-> "RELAY", ip |-> giaddr, port |-> 67]

(***************************************************************************)
(* What send_reply puts on the socket: the reply's type and yiaddr, the    *)
(* chaddr and giaddr it copies from the request (create_reply_packet), and *)
(* whether the sender held an active lease in another subnet than the one  *)
(* this handling leaves it with.                                           *)
(***************************************************************************)
Sent(p, reply, before, after) ==
    [type |-> reply.type, yiaddr |-> reply.yiaddr, mac |-> p.mac, giaddr |-> p.giaddr,
     moved |-> LET b == { l \in before : l.mac = p.mac /\ l.state = "active" }
                   a == { l \in after : l.mac = p.mac /\ l.state = "active" }
               IN  /\ b # {} /\ a # {}
                   /\ { l.subnet_id : l \in b } # { l.subnet_id : l \in a }]

NothingSent ==
    [type |-> "NONE", yiaddr |-> UNSPECIFIED, mac |-> 0, giaddr |-> UNSPECIFIED,
     moved |-> FALSE]

(***************************************************************************)
(* Actions of the lease engine.                                            *)
(***************************************************************************)
\* DhcpServer::run awaits a handler before it reads the next datagram: no
\* handler starts while a renewal is between its two statements
Handle(p) ==
    LET out == handle_packet(leases, reservations, now, p)
    IN  /\ renewing = None
        /\ leases' = out.leases
        /\ last' = IF out.reply = NoReply THEN last
                   ELSE Sent(p, out.reply, leases, out.leases)

Discover ==
    /\ \E p \in DiscoverPkts : Handle(p)
    /\ UNCHANGED <<now, reservations, loopVars, dnsVars, callVars, v6Vars, taskVars>>

Request ==
    /\ \E p \in RequestPkts : Handle(p)
    /\ UNCHANGED <<now, reservations, loopVars, dnsVars, callVars, v6Vars, taskVars>>

Release ==
    /\ \E p \in ReleasePkts : Handle(p)
    /\ UNCHANGED <<now, reservations, loopVars, dnsVars, callVars, v6Vars, taskVars>>

Decline ==
    /\ \E p \in DeclinePkts : Handle(p)
    /\ UNCHANGED <<now, reservations, loopVars, dnsVars, callVars, v6Vars, taskVars>>

Inform ==
    /\ \E p \in InformPkts : Handle(p)
    /\ UNCHANGED <<now, reservations, loopVars, dnsVars, callVars, v6Vars, taskVars>>

\* "_ => Ok(())" for a type with no handler, and the Err of get_message_type
\* for a type byte that is no DhcpMessageType: the message is dropped
Other ==
    /\ \E p \in OtherPkts : Handle(p)
    /\ UNCHANGED <<now, reservations, loopVars, dnsVars, callVars, v6Vars, taskVars>>

\* Fault: "cleanup_expired_leases().await?", the Err returned from the task
after_cleanup_error_return(task) == "ended"

\* "if let Err(e) = ... { error!(...) }": logged, and the loop goes round
after_cleanup_error(task) == task

\* the cleanup task: interval.tick(), cleanup_expired_leases()
Tick ==
    /\ cleanup_task = "running"
    /\ leases' = expire_old_leases(leases, now)
    /\ UNCHANGED <<now, reservations, last, loopVars, dnsVars, callVars, v6Vars, taskVars>>

\* the cleanup task: interval.tick(), and the UPDATE fails on a store error
TickFails ==
    /\ cleanup_task = "running"
    /\ cleanup_task' = after_cleanup_error(cleanup_task)
    /\ UNCHANGED <<coreVars, loopVars, dnsVars, callVars, v6Vars,
                   recv_task, renewing, errs4>>

AdvanceClock ==
    /\ now < MaxTime
    /\ now' = now + 1
    /\ UNCHANGED <<leases, reservations, last, loopVars, dnsVars, callVars, v6Vars, taskVars>>

\* The keys of dhcp_reservations: (subnet_id, mac) and (subnet_id, ip)
ReservationKeysFree(rs, subnet_id, mac, ip) ==
    \A r \in rs : r.subnet_id = subnet_id => (r.mac # mac /\ r.ip # ip)

\* what an administrator asks to reserve: for the first client, in subnet 1,
\* the allocable host or the broadcast address
ReservedMACs == {1}

ReservableSubnets == {1}

ReservableIps == { Ip(10, 0, 1, 2), Ip(10, 0, 1, 3) }

\* INSERT INTO dhcp_reservations (subnet_id, mac_address, ip_address, ...)
create_reservation(rs, subnet_id, mac, ip) ==
    IF ReservationKeysFree(rs, subnet_id, mac, ip)
    THEN rs \cup { [subnet_id |-> subnet_id, mac |-> mac, ip |-> ip] }
    ELSE rs

CreateReservation ==
    \E s \in ReservableSubnets, m \in ReservedMACs, ip \in ReservableIps :
        /\ reservations' = create_reservation(reservations, s, m, ip)
        /\ UNCHANGED <<now, leases, last, loopVars, dnsVars, callVars, v6Vars, taskVars>>

\* DELETE FROM dhcp_reservations WHERE id = $1
DeleteReservation ==
    \E r \in reservations :
        /\ reservations' = reservations \ {r}
        /\ UNCHANGED <<now, leases, last, loopVars, dnsVars, callVars, v6Vars, taskVars>>

\* api release_lease: SET state = 'released' WHERE id = $1 AND state = 'active'
force_release(ls, lease_id) ==
    { IF LeaseId(l) = lease_id /\ l.state = "active"
      THEN [l EXCEPT !.state = "released"] ELSE l
      : l \in ls }

ForceRelease ==
    \E l \in leases :
        /\ leases' = force_release(leases, LeaseId(l))
        /\ UNCHANGED <<now, reservations, last, loopVars, dnsVars, callVars, v6Vars, taskVars>>

(***************************************************************************)
(* renew_lease statement by statement.  The SELECT and the UPDATE are two  *)
(* awaited statements on the pool with no transaction around them; the     *)
(* cleanup task and the API handlers run on other tasks and may use the    *)
(* store in between.                                                       *)
(***************************************************************************)
\* handle_request up to "find_active_lease_by_mac_and_ip(...).await?" of
\* renew_lease, with a lease found
RenewFind ==
    /\ renewing = None
    /\ \E p \in RequestPkts :
          /\ RequestTarget(p) # None
          /\ LET existing == find_active_lease_by_mac_and_ip(
                                 leases, p.mac, Unwrap(RequestTarget(p)))
             IN  /\ existing # None
                 /\ renewing' = Some([packet |-> p, lease |-> Unwrap(existing)])
    /\ UNCHANGED <<coreVars, loopVars, dnsVars, callVars, v6Vars,
                   cleanup_task, recv_task, errs4>>

\* the table after "update_lease_end(lease.id, new_lease_end).await?" of a
\* renewal that has found its lease
renew_lease_update(ls, t, found) ==
    update_lease_end(ls, LeaseId(found.lease),
                     t + SubnetById(found.lease.subnet_id).lease_duration)

\* the rest of renew_lease and of handle_request: the UPDATE, then the ACK
\* with yiaddr = lease.ip_address
RenewUpdate ==
    /\ renewing # None
    /\ leases' = renew_lease_update(leases, now, Unwrap(renewing))
    /\ last' = Sent(Unwrap(renewing).packet,
                    Reply("ACK", Unwrap(renewing).lease.ip), leases, leases')
    /\ renewing' = None
    /\ UNCHANGED <<now, reservations, loopVars, dnsVars, callVars, v6Vars,
                   cleanup_task, recv_task, errs4>>

(***************************************************************************)
(* The receive loops.  A datagram on a socket carries its receive number.  *)
(* DhcpServer::run reads a datagram and awaits its handler before it reads *)
(* the next one.  Dhcpv6Server::run reads a datagram, spawns a task for    *)
(* its handler and reads on; the tasks finish in any order.                *)
(***************************************************************************)
\* DHCPv4 datagrams of the loop: DISCOVER and REQUEST of the allocable host of
\* subnet 1, from either client, through the relay of subnet 1
LoopPkts4 ==
    { p \in DiscoverPkts \cup RequestPkts :
        /\ p.giaddr = SubnetById(1).gateway
        /\ p.type = "REQUEST" => p.requested_ip = Some(SubnetById(1).start_ip) }

\* DHCPv6 clients, by DUID
DUIDs == {1, 2}

\* DHCPV6_SOLICIT, DHCPV6_REQUEST, DHCPV6_RENEW
Msgs6 == {"SOLICIT", "REQUEST", "RENEW"}

\* the Unix time of second 0 of the model's clock
StartUnix == 1700000000

\* DUID-LLT: type 1, hardware type 1, the seconds since 2000-01-01 at the
\* moment of the call as u32, a fixed MAC address
generate_server_duid(t) ==
    <<0, 1>> \o <<0, 1>>
        \o [i \in 1 .. 4 |-> ((StartUnix + t - 946684800) \div (256 ^ (4 - i))) % 256]
        \o <<0, 17, 34, 51, 68, 85>>

\* ADVERTISE: server DUID, the client's DUID, an IA_NA; no status code
handle_solicit6(d, t, store) ==
    [store |-> store,
     reply |-> [type |-> "ADVERTISE", duid |-> d.duid, n |-> d.n,
                server_duid |-> generate_server_duid(t), status |-> None]]

\* REPLY: server DUID, the client's DUID, status code Success; db is not used
handle_request6(d, t, store) ==
    [store |-> store,
     reply |-> [type |-> "REPLY", duid |-> d.duid, n |-> d.n,
                server_duid |-> generate_server_duid(t), status |-> Some(0)]]

\* the match of Dhcpv6Server::handle_packet
handle_packet6(d, t, store) ==
    IF d.type = "SOLICIT" THEN handle_solicit6(d, t, store)
    ELSE handle_request6(d, t, store)

\* a client's datagram reaches the DHCPv4 socket
Arrive4 ==
    /\ nrecv < MaxPackets
    /\ \E p \in LoopPkts4 : rxq' = Append(rxq, [pkt |-> p, n |-> nrecv + 1])
    /\ nrecv' = nrecv + 1
    /\ UNCHANGED <<coreVars, dnsVars, callVars, v6Vars, taskVars, cur, done4, rxq6, tasks6, sent6>>

\* socket.recv_from(&mut buf).await, DhcpPacket::parse: the loop is not inside a handler
Recv4 ==
    /\ recv_task = "running"
    /\ cur = None
    /\ rxq # <<>>
    /\ cur' = Some(Head(rxq))
    /\ rxq' = Tail(rxq)
    /\ UNCHANGED <<coreVars, dnsVars, callVars, v6Vars, taskVars, done4, rxq6, tasks6, sent6, nrecv>>

\* self.handle_packet(packet, src).await returns: the handler has run
Finish4 ==
    /\ cur # None
    /\ LET d == Unwrap(cur)
           out == handle_packet(leases, reservations, now, d.pkt)
       IN  /\ leases' = out.leases
           /\ last' = IF out.reply = NoReply THEN last
                      ELSE Sent(d.pkt, out.reply, leases, out.leases)
           /\ done4' = Append(done4, [mac |-> d.pkt.mac, n |-> d.n])
    /\ cur' = None
    /\ UNCHANGED <<now, reservations, rxq, rxq6, tasks6, sent6, nrecv, dnsVars, callVars, v6Vars, taskVars>>

\* the handler reaches a store operation: DISCOVER once a subnet is found,
\* REQUEST once an address is named, RELEASE and DECLINE once theirs is
touches_store(p) ==
    CASE p.type = "DISCOVER" ->
             find_subnet_for_client(p.src, GiaddrInto(p.giaddr)) # None
      [] p.type = "REQUEST" -> RequestTarget(p) # None
      [] p.type = "RELEASE" -> p.ciaddr # UNSPECIFIED
      [] p.type = "DECLINE" ->
             p.requested_ip # None /\ p.requested_ip # Some(UNSPECIFIED)
      [] OTHER -> FALSE

\* a store operation returns Err and "?" returns it from the handler: the
\* one write of a handler is its last store operation, and send_reply and
\* send_nak come after the store operations
handle_packet_store_error(ls, rs, t, p) ==
    [leases |-> ls, reply |-> NoReply, options |-> <<>>]

\* Fault: "self.handle_packet(packet, src).await?", the Err returned from run
after_handler_error_return(task) == "ended"

\* "if let Err(e) = self.handle_packet(...) { error!(...) }": logged, and
\* the loop goes round
after_handler_error(task) == task

\* self.handle_packet(packet, src).await returns Err: a store operation failed
Fail4 ==
    /\ cur # None
    /\ touches_store(Unwrap(cur).pkt)
    /\ LET d == Unwrap(cur)
           out == handle_packet_store_error(leases, reservations, now, d.pkt)
       IN  /\ leases' = out.leases
           /\ last' = IF out.reply = NoReply THEN last
                      ELSE Sent(d.pkt, out.reply, leases, out.leases)
           /\ done4' = Append(done4, [mac |-> d.pkt.mac, n |-> d.n])
           /\ errs4' = errs4 \cup { [n |-> d.n, reply |-> out.reply] }
    /\ cur' = None
    /\ recv_task' = after_handler_error(recv_task)
    /\ UNCHANGED <<now, reservations, rxq, rxq6, tasks6, sent6, nrecv, dnsVars,
                   callVars, v6Vars, cleanup_task, renewing>>

\* a client's datagram reaches the DHCPv6 socket
Arrive6 ==
    /\ nrecv < MaxPackets
    /\ \E c \in DUIDs, t \in Msgs6 :
          rxq6' = Append(rxq6, [type |-> t, duid |-> c, n |-> nrecv + 1])
    /\ nrecv' = nrecv + 1
    /\ UNCHANGED <<coreVars, dnsVars, callVars, v6Vars, taskVars, rxq, cur, done4, tasks6, sent6>>

\* socket.recv_from(&mut buf).await, tokio::spawn(handle_packet(...))
Recv6 ==
    /\ rxq6 # <<>>
    /\ tasks6' = tasks6 \cup { Head(rxq6) }
    /\ rxq6' = Tail(rxq6)
    /\ UNCHANGED <<coreVars, dnsVars, callVars, v6Vars, taskVars, rxq, cur, done4, sent6, nrecv>>

\* a spawned task runs its handler and socket.send_to(&response_data, src)
Finish6 ==
    \E d \in tasks6 :
        /\ tasks6' = tasks6 \ {d}
        /\ LET out == handle_packet6(d, now, bindings6)
           IN  /\ sent6' = Append(sent6, out.reply)
               /\ bindings6' = out.store
        /\ UNCHANGED <<coreVars, dnsVars, callVars, taskVars, delegations, rxq, cur, done4, rxq6, nrecv>>

(***************************************************************************)
(* DNS.  Two zones exist, the forward zone of the DHCP clients and the     *)
(* reverse zone of their addresses.  Names are sequences of characters so  *)
(* that the FQDN rule (a name with a dot is taken as it is) is computed.   *)
(***************************************************************************)
MaxRecords == 2
MaxInflight == 2

ForwardZone == "fwd"
ReverseZone == "rev"
Zones == {ForwardZone, ReverseZone}

\* settings.dns.domain_suffix, settings.dns.ttl_default
default_domain == <<"l", "a", "n">>
default_ttl == 300

\* option 12 of the clients: the first sends a bare name, the second a name
\* with a dot
HostnameOf(mac) ==
    IF mac = 1 THEN <<"p", "c">> ELSE <<"n", "a", "s", ".", "l", "a", "n">>

get_hostname(p) == Some(HostnameOf(p.mac))

\* the hostname argument of a lease event: absent, empty, or a client's name
EventHostnames == {None, Some(<<>>)} \cup { Some(HostnameOf(m)) : m \in MACs }

\* hostname.contains('.')
Contains(str, ch) == \E i \in DOMAIN str : str[i] = ch

\* format!("{}.{}", hostname, domain) unless the name has a dot
Fqdn(hostname, domain) ==
    IF Contains(hostname, ".") THEN hostname ELSE hostname \o <<".">> \o domain

\* the DNS tables as one value
DnsState(serial, records) == [serial |-> serial, records |-> records]

Ok(st) == [state |-> st, result |-> "Ok"]

Err(st) == [state |-> st, result |-> "Err"]

\* SimpleZoneManager: both only log ("Would add DNS record"), store nothing
add_dynamic_record(st, zone_name, hostname, ip, ttl) == Ok(st)

remove_dynamic_record(st, zone_name, hostname) == Ok(st)

add_dhcp_record(st, hostname, ip, domain, ttl) ==
    IF hostname = <<>> THEN Err(st)
    ELSE add_dynamic_record(st, domain, Fqdn(hostname, domain), ip, ttl)

remove_dhcp_record(st, hostname, domain) ==
    IF hostname = <<>> THEN Err(st)
    ELSE remove_dynamic_record(st, domain, Fqdn(hostname, domain))

on_lease_created(st, hostname, ip) ==
    IF hostname # None
    THEN add_dhcp_record(st, Unwrap(hostname), ip, default_domain, default_ttl)
    ELSE Ok(st)

on_lease_renewed(st, hostname, ip) == on_lease_created(st, hostname, ip)

on_lease_released(st, hostname) ==
    IF hostname # None
    THEN remove_dhcp_record(st, Unwrap(hostname), default_domain)
    ELSE Ok(st)

on_lease_expired(st, hostname) == on_lease_released(st, hostname)

\* a call of one of the four entry points of DhcpDnsIntegration
LeaseEvent(event, out) ==
    /\ serial_number' = out.state.serial
    /\ dns_records' = out.state.records
    /\ dnsres' = [event |-> event, result |-> out.result]

LeaseCreated ==
    /\ \E h \in EventHostnames, ip \in HostIps :
          LeaseEvent("created",
                     on_lease_created(DnsState(serial_number, dns_records), h, ip))
    /\ UNCHANGED <<inflight, coreVars, loopVars, callVars, v6Vars, taskVars>>

LeaseRenewed ==
    /\ \E h \in EventHostnames, ip \in HostIps :
          LeaseEvent("renewed",
                     on_lease_renewed(DnsState(serial_number, dns_records), h, ip))
    /\ UNCHANGED <<inflight, coreVars, loopVars, callVars, v6Vars, taskVars>>

LeaseReleased ==
    /\ \E h \in EventHostnames :
          LeaseEvent("released",
                     on_lease_released(DnsState(serial_number, dns_records), h))
    /\ UNCHANGED <<inflight, coreVars, loopVars, callVars, v6Vars, taskVars>>

LeaseExpired ==
    /\ \E h \in EventHostnames :
          LeaseEvent("expired",
                     on_lease_expired(DnsState(serial_number, dns_records), h))
    /\ UNCHANGED <<inflight, coreVars, loopVars, callVars, v6Vars, taskVars>>

(***************************************************************************)
(* Record handlers of the admin API.  Each writes the record, then reads   *)
(* the clock (Utc::now().timestamp()) and sends UPDATE dns_zones SET       *)
(* serial_number; the handlers of concurrent requests interleave at the    *)
(* await between the two.                                                  *)
(***************************************************************************)
RecordIds == 1 .. MaxRecords

RecordTypes == {"A", "BOGUS"}

\* name and value of a create request
RecordNames == {<<"w", "w", "w">>}

RecordValues == {Ip(10, 0, 1, 2)}

\* ttl of a create request: absent, negative, or in range
RequestTtls == {None, Some(0 - 1), Some(default_ttl)}

validate_dns_record_type(record_type) ==
    record_type \in {"A", "AAAA", "CNAME", "MX", "TXT", "PTR", "NS", "SOA", "SRV"}

validate_ttl(ttl) == ttl >= 0 /\ ttl <= 2147483647

\* the handler's INSERT INTO dns_records (..., is_dynamic) VALUES (..., false)
create_record(records, id, zone_id, name, record_type, value, ttl) ==
    IF ~ validate_dns_record_type(record_type) THEN records
    ELSE IF ttl # None /\ ~ validate_ttl(Unwrap(ttl)) THEN records
    ELSE records \cup {[id |-> id, zone_id |-> zone_id, name |-> name,
                        record_type |-> record_type, value |-> value,
                        ttl |-> IF ttl = None THEN 3600 ELSE Unwrap(ttl),
                        is_dynamic |-> FALSE]}

\* DELETE FROM dns_records WHERE id = $1
delete_record(records, id) == { r \in records : r.id # id }

\* the timestamp the handler has read, kept until its UPDATE runs
ReadClock(zone_id) ==
    inflight' = inflight \cup {[zone_id |-> zone_id, serial_number |-> now]}

CreateRecord ==
    \E id \in RecordIds, z \in Zones, name \in RecordNames, ty \in RecordTypes,
       value \in RecordValues, ttl \in RequestTtls :
        LET after == create_record(dns_records, id, z, name, ty, value, ttl)
        IN  /\ \A r \in dns_records : r.id # id
            /\ Cardinality(inflight) < MaxInflight
            /\ dns_records' = after
            /\ IF after # dns_records THEN ReadClock(z) ELSE UNCHANGED inflight
            /\ UNCHANGED <<serial_number, dnsres, coreVars, loopVars, callVars, v6Vars, taskVars>>

DeleteRecord ==
    \E r \in dns_records :
        /\ Cardinality(inflight) < MaxInflight
        /\ dns_records' = delete_record(dns_records, r.id)
        /\ ReadClock(r.zone_id)
        /\ UNCHANGED <<serial_number, dnsres, coreVars, loopVars, callVars, v6Vars, taskVars>>

\* UPDATE dns_zones SET serial_number = $1 WHERE id = $2
UpdateSerial ==
    \E h \in inflight :
        /\ serial_number' = [serial_number EXCEPT ![h.zone_id] = h.serial_number]
        /\ inflight' = inflight \ {h}
        /\ UNCHANGED <<dns_records, dnsres, coreVars, loopVars, callVars, v6Vars, taskVars>>

(***************************************************************************)
(* IPv6 prefix delegation (PrefixDelegationManager).  An Ipv6Addr is its   *)
(* 16 octets; the pool map holds the default pool that init_pools adds and *)
(* is never written again (every method but init_pools takes &self).       *)
(***************************************************************************)
\* 2001:db8:1000::/48, delegating /56 prefixes
DefaultPool ==
    [prefix |-> <<32, 1, 13, 184, 16, 0>> \o Zeros(10),
     prefix_length |-> 48, delegation_length |-> 56,
     total_prefixes |-> 256, available_prefixes |-> 256]

Pools == {DefaultPool}

RECURSIVE BitOr(_, _)
\* a | b
BitOr(a, b) ==
    IF a = 0 THEN b
    ELSE IF b = 0 THEN a
    ELSE (IF a % 2 = 1 \/ b % 2 = 1 THEN 1 ELSE 0) + 2 * BitOr(a \div 2, b \div 2)

\* octet i (1 the most significant of 16) of the u128 value num << shift,
\* for num below 2^16
ShiftedOctet(num, shift, i) ==
    LET low == 8 * (16 - i)
    IN  IF low + 8 <= shift THEN 0
        ELSE IF low >= shift
             THEN IF low - shift > 16 THEN 0 ELSE (num \div (2 ^ (low - shift))) % 256
             ELSE (num * (2 ^ (shift - low))) % 256

\* "128 - delegation_length" in u8 underflows for a length above 128, and
\* "prefix_num << prefix_shift" in u128 overflows for a shift of 128 (length
\* 0): a panic where overflow checks are on
allocate_prefix_panics(requested_length, overflow_checks) ==
    LET found == { pl \in Pools : pl.available_prefixes > 0 }
    IN  /\ overflow_checks
        /\ found # {}
        /\ requested_length # None
        /\ (Unwrap(requested_length) > 128 \/ Unwrap(requested_length) = 0)

\* None is Err("No prefixes available").  Where overflow checks are off the
\* subtraction wraps in u8 and the shift takes its amount modulo 128.
allocate_prefix(requested_length) ==
    LET found == { pl \in Pools : pl.available_prefixes > 0 }
    IN  IF found = {} THEN None
        ELSE LET pool == CHOOSE pl \in found : TRUE
                 delegation_length == IF requested_length = None
                                      THEN pool.delegation_length
                                      ELSE Unwrap(requested_length)
                 prefix_num == pool.total_prefixes - pool.available_prefixes
                 prefix_shift == ((128 - delegation_length) % 256) % 128
             IN  Some([prefix |-> [i \in 1 .. 16 |->
                                     BitOr(pool.prefix[i],
                                           ShiftedOctet(prefix_num, prefix_shift, i))],
                       length |-> delegation_length])

\* both arms of the match return Err("No existing delegation found")
get_existing_delegation(ds, client_duid, iaid) ==
    LET row == { d \in ds : d.duid = client_duid /\ d.iaid = iaid
                            /\ d.state = "delegated" }
    IN  IF row # {} THEN None ELSE None

\* INSERT ... ON CONFLICT (client_duid, iaid) DO UPDATE
store_delegation(ds, delegation) ==
    { d \in ds : ~ (d.duid = delegation.duid /\ d.iaid = delegation.iaid) }
        \cup {delegation}

\* the rows of the table after the call
request_prefix(ds, t, client_duid, iaid, requested_length, lifetime_hint) ==
    LET existing == get_existing_delegation(ds, client_duid, iaid)
    IN  IF existing # None /\ Unwrap(existing).state = "delegated" THEN ds
        ELSE LET prefix == allocate_prefix(requested_length)
                 valid_lifetime == IF lifetime_hint = None THEN 86400
                                   ELSE Unwrap(lifetime_hint)
             IN  IF prefix = None THEN ds
                 ELSE store_delegation(ds,
                          [duid |-> client_duid, iaid |-> iaid,
                           prefix |-> Unwrap(prefix).prefix,
                           prefix_length |-> Unwrap(prefix).length,
                           lease_end |-> t + valid_lifetime,
                           state |-> "delegated"])

\* UPDATE ... SET state = 'available', lease_end = NOW()
\* WHERE client_duid = $1 AND iaid = $2 AND prefix = $3
release_prefix(ds, t, client_duid, iaid, prefix) ==
    { IF d.duid = client_duid /\ d.iaid = iaid /\ d.prefix = prefix
      THEN [d EXCEPT !.state = "available", !.lease_end = t]
      ELSE d : d \in ds }

\* Fault: the expiration pass without "AND lease_end < NOW()"
cleanup_expired_any_end(ds, t) ==
    { IF d.state = "delegated"
      THEN [d EXCEPT !.state = "expired"]
      ELSE d : d \in ds }

cleanup_expired(ds, t) ==
    { IF d.state = "delegated" /\ d.lease_end < t
      THEN [d EXCEPT !.state = "expired"]
      ELSE d : d \in ds }

reclaim_expired(ds, t, grace_period_hours) ==
    LET cutoff == t - grace_period_hours * 3600
    IN  { IF d.state = "expired" /\ d.lease_end < cutoff
          THEN [d EXCEPT !.state = "available"]
          ELSE d : d \in ds }

\* the IA_PD of the two clients
IAIDs == {1}

RequestedLengths == {None, Some(60)}

LifetimeHints == {None, Some(1)}

\* the pool's first prefix, and a prefix nobody was given
ReleasedPrefixes == { DefaultPool.prefix, <<32, 1, 13, 184, 32, 0>> \o Zeros(10) }

GracePeriods == {0, 24}

RequestPrefix ==
    /\ \E c \in DUIDs, i \in IAIDs, len \in RequestedLengths, hint \in LifetimeHints :
          delegations' = request_prefix(delegations, now, c, i, len, hint)
    /\ UNCHANGED <<bindings6, coreVars, loopVars, dnsVars, callVars, taskVars>>

ReleasePrefix ==
    /\ \E c \in DUIDs, i \in IAIDs, prefix \in ReleasedPrefixes :
          delegations' = release_prefix(delegations, now, c, i, prefix)
    /\ UNCHANGED <<bindings6, coreVars, loopVars, dnsVars, callVars, taskVars>>

CleanupExpired ==
    /\ delegations' = cleanup_expired(delegations, now)
    /\ UNCHANGED <<bindings6, coreVars, loopVars, dnsVars, callVars, taskVars>>

ReclaimExpired ==
    /\ \E g \in GracePeriods :
          delegations' = reclaim_expired(delegations, now, g)
    /\ UNCHANGED <<bindings6, coreVars, loopVars, dnsVars, callVars, taskVars>>

(***************************************************************************)
(* Functions of the admin API and of the packet code whose result depends  *)
(* on their argument alone.  A call is [fn, v]; Return gives its result.   *)
(***************************************************************************)
Call(fn, v) == [fn |-> fn, v |-> v]

Return(fn, result) ==
    /\ arg.fn = fn
    /\ ret = None
    /\ ret' = Some(result)

(***************************************************************************)
(* POST create_subnet.  The request's network is a string; what            *)
(* Ipv4Net::from_str makes of it is None (an Err) or a network, host bits  *)
(* allowed.                                                                *)
(***************************************************************************)
RequestNetworks ==
    {None} \cup { Some([ip |-> Ip(10, 0, 1, 0), prefix |-> len]) : len \in {7, 8, 30, 31} }

\* inside 10.0.1.0/30, inside it, outside it
RequestIps == { Ip(10, 0, 1, 1), Ip(10, 0, 1, 2), Ip(10, 0, 9, 9) }

SubnetRequests ==
    [network : RequestNetworks, start_ip : RequestIps, end_ip : RequestIps,
     gateway : RequestIps, lease_duration : {None, Some(60)}]

validate_ipv4_network(network) ==
    IF network # None
    THEN Unwrap(network).prefix >= 8 /\ Unwrap(network).prefix <= 30
    ELSE FALSE

validate_ip_in_range(ip, start, end) == ip >= start /\ ip <= end

\* the rows of dhcp_subnets after the request
create_subnet(table, req) ==
    IF ~ validate_ipv4_network(req.network) THEN table
    ELSE IF ~ validate_ip_in_range(req.start_ip, req.start_ip, req.end_ip) THEN table
    ELSE table \cup {[network |-> Unwrap(req.network),
                      start_ip |-> req.start_ip, end_ip |-> req.end_ip,
                      gateway |-> req.gateway,
                      lease_duration |-> IF req.lease_duration = None THEN 86400
                                         ELSE Unwrap(req.lease_duration)]}

CreateSubnet ==
    /\ Return("create_subnet", create_subnet({}, arg.v))
    /\ UNCHANGED <<arg, coreVars, loopVars, dnsVars, v6Vars, taskVars>>

(***************************************************************************)
(* The DHCPv4 wire format: DhcpPacket::parse and DhcpPacket::to_bytes.     *)
(* A datagram is a sequence of bytes; Rust's data[a..b] is                 *)
(* SubSeq(data, a + 1, b).                                                 *)
(***************************************************************************)
MaxTail == 4

MAGIC_COOKIE == <<99, 130, 83, 99>>

RECURSIVE ParseOptionsFrom(_, _, _)
\* the while loop of parse_options, i as in the code
ParseOptionsFrom(data, i, options) ==
    IF i >= Len(data) THEN options
    ELSE LET code == data[i + 1]
         IN  IF code = 255 THEN options
             ELSE IF code = 0 THEN ParseOptionsFrom(data, i + 1, options)
             ELSE IF i + 1 >= Len(data) THEN options
             ELSE LET len == data[i + 2]
                  IN  IF i + 2 + len > Len(data) THEN options
                      ELSE ParseOptionsFrom(data, i + 2 + len,
                               Append(options,
                                      [code |-> code,
                                       data |-> SubSeq(data, i + 3, i + 2 + len)]))

parse_options(data) == ParseOptionsFrom(data, 0, <<>>)

\* Fault: a frame accepted only from 240 bytes on, the cookie's place included
parse_min_240(data) ==
    IF Len(data) < 240 THEN None
    ELSE Some([op |-> data[1], htype |-> data[2], hlen |-> data[3], hops |-> data[4],
               xid |-> from_be_bytes(SubSeq(data, 5, 8)),
               secs |-> from_be_bytes(SubSeq(data, 9, 10)),
               flags |-> from_be_bytes(SubSeq(data, 11, 12)),
               ciaddr |-> SubSeq(data, 13, 16),
               yiaddr |-> SubSeq(data, 17, 20),
               siaddr |-> SubSeq(data, 21, 24),
               giaddr |-> SubSeq(data, 25, 28),
               chaddr |-> SubSeq(data, 29, 44),
               sname |-> SubSeq(data, 45, 108),
               file |-> SubSeq(data, 109, 236),
               options |-> IF Len(data) > 240 /\ SubSeq(data, 237, 240) = MAGIC_COOKIE
                           THEN parse_options(SubSeq(data, 241, Len(data)))
                           ELSE <<>>])

\* None is Err("DHCP packet too short")
parse(data) ==
    IF Len(data) < 236 THEN None
    ELSE Some([op |-> data[1], htype |-> data[2], hlen |-> data[3], hops |-> data[4],
               xid |-> from_be_bytes(SubSeq(data, 5, 8)),
               secs |-> from_be_bytes(SubSeq(data, 9, 10)),
               flags |-> from_be_bytes(SubSeq(data, 11, 12)),
               ciaddr |-> SubSeq(data, 13, 16),
               yiaddr |-> SubSeq(data, 17, 20),
               siaddr |-> SubSeq(data, 21, 24),
               giaddr |-> SubSeq(data, 25, 28),
               chaddr |-> SubSeq(data, 29, 44),
               sname |-> SubSeq(data, 45, 108),
               file |-> SubSeq(data, 109, 236),
               options |-> IF Len(data) > 240 /\ SubSeq(data, 237, 240) = MAGIC_COOKIE
                           THEN parse_options(SubSeq(data, 241, Len(data)))
                           ELSE <<>>])

RECURSIVE PutOptions(_)
\* for option in &self.options: code, length as u8, data
PutOptions(options) ==
    IF options = <<>> THEN <<>>
    ELSE <<Head(options).code, Len(Head(options).data) % 256>>
            \o Head(options).data \o PutOptions(Tail(options))

\* while buffer.len() < 300 { put_u8(0) }
PadTo(buffer, n) ==
    IF Len(buffer) < n THEN buffer \o Zeros(n - Len(buffer)) ELSE buffer

PutHeader(pkt) ==
    <<pkt.op, pkt.htype, pkt.hlen, pkt.hops>>
        \o to_be_bytes(pkt.xid, 4) \o to_be_bytes(pkt.secs, 2) \o to_be_bytes(pkt.flags, 2)
        \o pkt.ciaddr \o pkt.yiaddr \o pkt.siaddr \o pkt.giaddr
        \o pkt.chaddr \o pkt.sname \o pkt.file

\* Fault: the magic cookie is not written
to_bytes_no_cookie(pkt) ==
    PadTo(PutHeader(pkt) \o PutOptions(pkt.options) \o <<255>>, 300)

to_bytes(pkt) ==
    PadTo(PutHeader(pkt) \o MAGIC_COOKIE \o PutOptions(pkt.options) \o <<255>>, 300)

\* two 236-byte headers: all zero, and a relayed request with every field set
Headers ==
    { Zeros(236),
      <<1, 1, 6, 2>> \o <<1, 2, 3, 4>> \o <<0, 5>> \o <<128, 0>>
          \o <<10, 0, 1, 2>> \o <<0, 0, 0, 0>> \o <<10, 0, 0, 9>> \o <<10, 0, 1, 1>>
          \o <<2, 0, 0, 0, 0, 1>> \o Zeros(10)
          \o <<104>> \o Zeros(63)
          \o <<98>> \o Zeros(127) }

\* bytes of the option area: pad, two option codes (also lengths), end
TailBytes == {0, 1, 2, 255}

Tails == UNION { [1 .. n -> TailBytes] : n \in 0 .. MaxTail }

\* received datagrams: too short, header only, header and cookie (right or
\* wrong) and option bytes
Datagrams ==
    {Zeros(235)} \cup Headers
        \cup { h \o c \o t : h \in Headers, c \in {MAGIC_COOKIE, Zeros(4)}, t \in Tails }

ParsePacket ==
    /\ Return("parse", parse(arg.v))
    /\ UNCHANGED <<arg, coreVars, loopVars, dnsVars, v6Vars, taskVars>>

(***************************************************************************)
(* build_subnet_options on a subnet of any lease_duration: create_subnet   *)
(* stores the i32 it is given.                                             *)
(***************************************************************************)
\* the least and the greatest durations, a day, and the two durations on
\* either side of the greatest one whose sevenfold fits an i32
LeaseDurations == {0, 1, 2, 7, 8, 9, 86400, 306783378, 306783379, 2147483647}

SubnetsOfDuration ==
    { [SubnetById(1) EXCEPT !.lease_duration = d] : d \in LeaseDurations }

BuildSubnetOptions ==
    /\ Return("build_subnet_options",
              build_subnet_options(arg.v.subnet, arg.v.overflow_checks))
    /\ UNCHANGED <<arg, coreVars, loopVars, dnsVars, v6Vars, taskVars>>

(***************************************************************************)
(* MAC addresses as text (validators.rs).  A string is the sequence of its *)
(* characters.                                                             *)
(***************************************************************************)
\* the digits of "{:x}", in order of value
LowerHex ==
    <<"0", "1", "2", "3", "4", "5", "6", "7", "8", "9", "a", "b", "c", "d", "e", "f">>

UpperHex ==
    <<"0", "1", "2", "3", "4", "5", "6", "7", "8", "9", "A", "B", "C", "D", "E", "F">>

\* char::to_digit(16): Some(value), or None for a character that is no digit
to_digit(c) ==
    { i - 1 : i \in { j \in 1 .. 16 : LowerHex[j] = c \/ UpperHex[j] = c } }

\* the character class [0-9A-Fa-f]
IsHexDigit(c) == to_digit(c) # None

\* the character class [:-]
IsSeparator(c) == c \in {":", "-"}

\* ([0-9A-Fa-f]{2}[:-]){n} matched from position i (counted from 1): the
\* position after the match, or None
RECURSIVE MatchGroups(_, _, _)
MatchGroups(mac, i, n) ==
    IF n = 0 THEN Some(i)
    ELSE IF /\ i + 2 <= Len(mac)
            /\ IsHexDigit(mac[i]) /\ IsHexDigit(mac[i + 1]) /\ IsSeparator(mac[i + 2])
         THEN MatchGroups(mac, i + 3, n - 1)
         ELSE None

\* ^([0-9A-Fa-f]{2}[:-]){5}([0-9A-Fa-f]{2})$
validate_mac_address(mac) ==
    LET after == MatchGroups(mac, 1, 5)
    IN  /\ after # None
        /\ LET i == Unwrap(after)
           IN  /\ i + 1 = Len(mac)
               /\ IsHexDigit(mac[i]) /\ IsHexDigit(mac[i + 1])

\* mac.replace([':', '-'], "")
RemoveSeparators(mac) == SelectSeq(mac, LAMBDA c : ~ IsSeparator(c))

\* u8::from_str_radix(src, 16): Ok(value) as Some(value), Err as None; one
\* leading "+" is accepted when digits follow
from_str_radix(src) ==
    LET digits == IF src # <<>> /\ src[1] = "+" THEN Tail(src) ELSE src
    IN  IF digits = <<>> \/ \E i \in DOMAIN digits : ~ IsHexDigit(digits[i])
        THEN None
        ELSE IF Len(digits) = 1 THEN to_digit(digits[1])
             ELSE Some(Unwrap(to_digit(digits[1])) * 16 + Unwrap(to_digit(digits[2])))

\* for i in (0..12).step_by(2): the bytes so far, or None at the first Err
RECURSIVE ParsePairs(_, _)
ParsePairs(cleaned, i) ==
    IF i >= 12 THEN Some(<<>>)
    ELSE LET byte == from_str_radix(SubSeq(cleaned, i + 1, i + 2))
             rest == ParsePairs(cleaned, i + 2)
         IN  IF byte = None \/ rest = None THEN None
             ELSE Some(<<Unwrap(byte)>> \o Unwrap(rest))

mac_string_to_bytes(mac) ==
    IF ~ validate_mac_address(mac) THEN None
    ELSE ParsePairs(RemoveSeparators(mac), 0)

\* Vec<String>::join(":")
RECURSIVE Join(_)
Join(parts) ==
    IF parts = <<>> THEN <<>>
    ELSE IF Len(parts) = 1 THEN parts[1]
         ELSE parts[1] \o <<":">> \o Join(Tail(parts))

\* Fault: format!("{:x}", b), the width left out
bytes_to_mac_string_unpadded(bytes) ==
    Join([i \in DOMAIN bytes |->
            IF bytes[i] < 16 THEN <<LowerHex[bytes[i] + 1]>>
            ELSE <<LowerHex[(bytes[i] \div 16) + 1], LowerHex[(bytes[i] % 16) + 1]>>])

\* format!("{:02x}", b) for each byte, joined by ":"
bytes_to_mac_string(bytes) ==
    Join([i \in DOMAIN bytes |->
            <<LowerHex[(bytes[i] \div 16) + 1], LowerHex[(bytes[i] % 16) + 1]>>])

\* the bytes tried: 0x00, 0x0a, 0xab, 0xff
MacByteValues == {0, 10, 171, 255}

MacBytes == [1 .. 6 -> MacByteValues]

\* groups of two hex digits, and the ways five separators are chosen
MacGroups == { <<"0", "a">>, <<"F", "9">> }

MacSeparators ==
    { [i \in 1 .. 5 |-> ":"], [i \in 1 .. 5 |-> "-"],
      [i \in 1 .. 5 |-> IF i % 2 = 1 THEN ":" ELSE "-"] }

WithSeparators(groups, seps) ==
    groups[1] \o <<seps[1]>> \o groups[2] \o <<seps[2]>> \o groups[3] \o <<seps[3]>>
        \o groups[4] \o <<seps[4]>> \o groups[5] \o <<seps[5]>> \o groups[6]

\* strings of six groups
WellFormedMacs ==
    { WithSeparators(groups, seps) :
        groups \in [1 .. 6 -> MacGroups], seps \in MacSeparators }

\* six times the same group
PlainMacs ==
    { WithSeparators([i \in 1 .. 6 |-> group], seps) :
        group \in MacGroups, seps \in MacSeparators }

\* a string cut to five groups, grown to seven, followed by a blank, left
\* without separators, or with one character replaced
DamagedMacs ==
    { SubSeq(mac, 1, 14) : mac \in PlainMacs }
        \cup { mac \o <<":", "0", "0">> : mac \in PlainMacs }
        \cup { mac \o <<" ">> : mac \in PlainMacs }
        \cup { RemoveSeparators(mac) : mac \in PlainMacs }
        \cup { [mac EXCEPT ![k] = c] :
                  mac \in PlainMacs, k \in 1 .. 17,
                  c \in {"G", "g", ".", " ", "+", ":", "0"} }
        \cup { <<>> }

MacStrings == WellFormedMacs \cup DamagedMacs

MacStringToBytes ==
    /\ Return("mac_string_to_bytes", mac_string_to_bytes(arg.v))
    /\ UNCHANGED <<arg, coreVars, loopVars, dnsVars, v6Vars, taskVars>>

BytesToMacString ==
    /\ Return("bytes_to_mac_string", bytes_to_mac_string(arg.v))
    /\ UNCHANGED <<arg, coreVars, loopVars, dnsVars, v6Vars, taskVars>>

(***************************************************************************)
(* The DHCPv6 wire format: Dhcpv6Server::parse_packet.                     *)
(***************************************************************************)
RECURSIVE ParseOptions6From(_, _, _)
\* the while loop of parse_packet, offset as in the code
ParseOptions6From(data, offset, options) ==
    IF offset >= Len(data) THEN options
    ELSE IF offset + 4 > Len(data) THEN options
    ELSE LET opt_code == from_be_bytes(SubSeq(data, offset + 1, offset + 2))
             opt_len == from_be_bytes(SubSeq(data, offset + 3, offset + 4))
         IN  IF offset + 4 + opt_len > Len(data) THEN options
             ELSE ParseOptions6From(data, offset + 4 + opt_len,
                      Append(options,
                             [code |-> opt_code,
                              data |-> SubSeq(data, offset + 5, offset + 4 + opt_len)]))

\* None is Err("Packet too short")
parse_packet(data) ==
    IF Len(data) < 4 THEN None
    ELSE Some([msg_type |-> data[1],
               transaction_id |-> SubSeq(data, 2, 4),
               options |-> ParseOptions6From(data, 4, <<>>)])

\* received DHCPv6 frames: shorter than the header, and a SOLICIT header
\* with up to MaxTail + 1 bytes of options behind it
Frames6 ==
    { <<>>, <<1>>, <<1, 0, 0>> }
        \cup { <<1, 0, 0, 7>> \o t :
                 t \in UNION { [1 .. n -> {0, 1}] : n \in 0 .. MaxTail + 1 } }

ParsePacket6 ==
    /\ Return("parse_packet", parse_packet(arg.v))
    /\ UNCHANGED <<arg, coreVars, loopVars, dnsVars, v6Vars, taskVars>>

(***************************************************************************)
(* The lease key of a DHCPv4 packet: DhcpPacket::get_client_mac.           *)
(***************************************************************************)
\* mac.copy_from_slice(&self.chaddr[..6])
get_client_mac(packet) == SubSeq(packet.chaddr, 1, 6)

\* hardware address lengths, and chaddr fields that agree in their first
\* four bytes or differ in them
HardwareLengths == {0, 4, 6, 16}

Chaddrs ==
    { <<2, 0, 0, first>> \o <<fifth, sixth>> \o <<seventh>> \o Zeros(9) :
        first \in {1, 2}, fifth \in {0, 9}, sixth \in {0, 9}, seventh \in {0, 9} }

ChaddrPackets == [hlen : HardwareLengths, chaddr : Chaddrs]

GetClientMac ==
    /\ Return("get_client_mac", get_client_mac(arg.v))
    /\ UNCHANGED <<arg, coreVars, loopVars, dnsVars, v6Vars, taskVars>>

(***************************************************************************)
(* Reverse DNS names (dns/record_types.rs).  A name is the sequence of its *)
(* labels, the text between the dots; format!("{}") writes an octet in     *)
(* decimal.                                                                *)
(***************************************************************************)
ipv4_to_ptr_name(ip) ==
    LET octets == Octets(ip)
    IN  << ToString(octets[4]), ToString(octets[3]), ToString(octets[2]),
           ToString(octets[1]), "in-addr", "arpa" >>

\* Ipv4Net::network(): the address with its host bits cleared
network(net) == net.addr - (net.addr % Pow2(32 - net.prefix_len))

\* Ipv4Net::contains
contains(net, ip) == ip - (ip % Pow2(32 - net.prefix_len)) = network(net)

network_to_reverse_zone(net) ==
    LET prefix_len == net.prefix_len
        octets == Octets(network(net))
    IN  CASE prefix_len = 24 ->
               << ToString(octets[3]), ToString(octets[2]), ToString(octets[1]),
                  "in-addr", "arpa" >>
          [] prefix_len = 16 ->
               << ToString(octets[2]), ToString(octets[1]), "in-addr", "arpa" >>
          [] prefix_len = 8 ->
               << ToString(octets[1]), "in-addr", "arpa" >>
          [] OTHER ->
               << ToString(octets[3]), ToString(octets[2]), ToString(octets[1]),
                  "in-addr", "arpa" >>

\* networks of every kind of prefix length from 8 to 30, and addresses in
\* and around them
PrefixLengths == {8, 12, 16, 20, 24, 25, 30}

Ipv4Nets ==
    [addr : {Ip(10, 1, 2, 0), Ip(10, 1, 2, 129)}, prefix_len : PrefixLengths]

Ipv4Addrs ==
    { Ip(10, b, c, d) : b \in {0, 1, 9}, c \in {0, 2, 3}, d \in {0, 5, 129, 130} }

NetworkToReverseZone ==
    /\ Return("network_to_reverse_zone", network_to_reverse_zone(arg.v))
    /\ UNCHANGED <<arg, coreVars, loopVars, dnsVars, v6Vars, taskVars>>

\* the hints a client may send for the length of its prefix (a u8), or none
LengthHints == {None} \cup { Some(n) : n \in {0, 40, 48, 56, 60, 128, 129, 255} }

\* allocate_prefix as request_prefix calls it, in either build
AllocatePrefix ==
    /\ Return("allocate_prefix",
              IF allocate_prefix_panics(arg.v.requested_length, arg.v.overflow_checks)
              THEN [panicked |-> TRUE, value |-> None]
              ELSE [panicked |-> FALSE,
                    value |-> allocate_prefix(arg.v.requested_length)])
    /\ UNCHANGED <<arg, coreVars, loopVars, dnsVars, v6Vars, taskVars>>

CallInputs ==
    { Call("create_subnet", req) : req \in SubnetRequests }
        \cup { Call("parse_packet", data) : data \in Frames6 }
        \cup { Call("get_client_mac", packet) : packet \in ChaddrPackets }
        \cup { Call("network_to_reverse_zone", net) : net \in Ipv4Nets }
        \cup { Call("allocate_prefix",
                    [requested_length |-> len, overflow_checks |-> checks]) :
                   len \in LengthHints, checks \in OverflowChecks }
        \cup { Call("mac_string_to_bytes", mac) : mac \in MacStrings }
        \cup { Call("bytes_to_mac_string", bytes) : bytes \in MacBytes }
        \cup { Call("parse", data) : data \in Datagrams }
        \cup { Call("build_subnet_options",
                    [subnet |-> subnet, overflow_checks |-> checks]) :
                   subnet \in SubnetsOfDuration, checks \in OverflowChecks }

CoreInit ==
    /\ now = 0
    /\ leases = {}
    /\ reservations = {}
    /\ last = NothingSent

LoopIdle ==
    /\ rxq = <<>>
    /\ cur = None
    /\ done4 = <<>>
    /\ rxq6 = <<>>
    /\ tasks6 = {}
    /\ sent6 = <<>>
    /\ nrecv = 0

\* both zones were created at second 0: create_zone stores the clock as serial
DnsIdle ==
    /\ serial_number = [z \in Zones |-> 0]
    /\ dns_records = {}
    /\ inflight = {}
    /\ dnsres = [event |-> "none", result |-> "Ok"]

\* no call is under way
NoCall == [fn |-> "none", v |-> <<>>]

CallIdle ==
    /\ arg = NoCall
    /\ ret = None

\* no binding, no delegation
V6Idle ==
    /\ bindings6 = {}
    /\ delegations = {}

\* both loops of DhcpServer::run have started, no handler is under way
TaskIdle ==
    /\ cleanup_task = "running"
    /\ recv_task = "running"
    /\ renewing = None
    /\ errs4 = {}

Init == CoreInit /\ LoopIdle /\ DnsIdle /\ CallIdle /\ V6Idle /\ TaskIdle

Next ==
    \/ Discover
    \/ Request
    \/ Release
    \/ Decline
    \/ Inform
    \/ Other
    \/ Tick
    \/ AdvanceClock
    \/ CreateReservation
    \/ DeleteReservation
    \/ ForceRelease

Spec == Init /\ [][Next]_vars

NextLoop ==
    \/ Arrive4
    \/ Recv4
    \/ Finish4
    \/ Arrive6
    \/ Recv6
    \/ Finish6

SpecLoop == Init /\ [][NextLoop]_vars

\* the DNS side: the admin's record handlers, the lease events, the clock
NextDns ==
    \/ CreateRecord
    \/ DeleteRecord
    \/ UpdateSerial
    \/ LeaseCreated
    \/ LeaseRenewed
    \/ LeaseReleased
    \/ LeaseExpired
    \/ AdvanceClock

SpecDns == Init /\ [][NextDns]_vars

\* a lease's life beside the DNS updater; the server keeps taking steps
NextLife ==
    \/ Request
    \/ Release
    \/ Tick
    \/ AdvanceClock
    \/ LeaseCreated
    \/ LeaseRenewed
    \/ LeaseReleased
    \/ LeaseExpired

SpecLife == Init /\ [][NextLife]_vars /\ WF_vars(NextLife)

\* the DHCPv6 receive loop while the clock runs
NextV6 ==
    \/ Arrive6
    \/ Recv6
    \/ Finish6
    \/ AdvanceClock

SpecV6 == Init /\ [][NextV6]_vars

\* prefix delegation: requests, releases, the two passes, the clock
NextPd ==
    \/ RequestPrefix
    \/ ReleasePrefix
    \/ CleanupExpired
    \/ ReclaimExpired
    \/ AdvanceClock

SpecPd == Init /\ [][NextPd]_vars

\* leases beside the cleanup task, whose UPDATE may fail; the interval keeps
\* ticking, so a tick that can expire a lease is sooner or later taken
NextTick ==
    \/ Request
    \/ Release
    \/ Tick
    \/ TickFails
    \/ AdvanceClock

SpecTick == Init /\ [][NextTick]_vars /\ WF_vars(Tick)

\* the DHCPv4 receive loop over a store that may fail
NextRenew ==
    \/ Request
    \/ RenewFind
    \/ RenewUpdate
    \/ Tick
    \/ ForceRelease
    \/ AdvanceClock

SpecRenew == Init /\ [][NextRenew]_vars

NextErr4 ==
    \/ Arrive4
    \/ Recv4
    \/ Finish4
    \/ Fail4

SpecErr4 == Init /\ [][NextErr4]_vars

\* the stateless functions, each called once on an argument of its domain
InitCalls ==
    /\ CoreInit /\ LoopIdle /\ DnsIdle /\ V6Idle /\ TaskIdle
    /\ arg \in CallInputs
    /\ ret = None

NextCalls ==
    \/ CreateSubnet
    \/ ParsePacket
    \/ BuildSubnetOptions
    \/ MacStringToBytes
    \/ BytesToMacString
    \/ AllocatePrefix
    \/ ParsePacket6
    \/ GetClientMac
    \/ NetworkToReverseZone

SpecCalls == InitCalls /\ [][NextCalls]_vars

(***************************************************************************)
(* Vocabulary of the properties.                                           *)
(***************************************************************************)
ActiveOf(ls, mac) == { l \in ls : l.mac = mac /\ l.state = "active" }

\* inside [start_ip, end_ip] and neither the network nor the broadcast address
Allocable(subnet, ip) ==
    /\ subnet.start_ip <= ip
    /\ ip <= subnet.end_ip
    /\ ip # NetworkAddr(subnet.network)
    /\ ip # NetworkBroadcast(subnet.network)

PoolAddrs(subnet) == { ip \in subnet.start_ip .. subnet.end_ip : Allocable(subnet, ip) }

\* held by an active unexpired lease or by a reservation
Held(subnet_id, ip) ==
    \/ \E l \in leases : /\ l.subnet_id = subnet_id /\ l.ip = ip
                         /\ l.state = "active" /\ l.lease_end > now
    \/ \E r \in reservations : r.subnet_id = subnet_id /\ r.ip = ip

PoolFull(subnet_id) == \A ip \in PoolAddrs(SubnetById(subnet_id)) : Held(subnet_id, ip)

\* the MAC has a reservation in the subnet, or an active unexpired lease in it
OwnBinding(subnet_id, mac) ==
    \/ \E r \in reservations : r.subnet_id = subnet_id /\ r.mac = mac
    \/ \E l \in leases : /\ l.mac = mac /\ l.subnet_id = subnet_id
                         /\ l.state = "active" /\ l.lease_end > now

Grants(reply) == reply.type \in {"OFFER", "ACK"}

(***************************************************************************)
(* C1.  After any sequence of handlings, ticks, clock advances and admin   *)
(* mutations the lease store holds at most one lease in state active for   *)
(* any (subnet_id, ip).                                                    *)
(* Refuted: count_active_leases ignores an active row whose lease_end has  *)
(* passed, so before the tick expires it the address is committed to a     *)
(* second MAC while the first row is still active.                         *)
(***************************************************************************)
C1_OneActivePerSubnetIp ==
    \A a, b \in leases :
        ( /\ a.state = "active" /\ b.state = "active"
          /\ a.subnet_id = b.subnet_id /\ a.ip = b.ip ) => a = b

(***************************************************************************)
(* C2.  The lease store holds at most one lease in state active per MAC    *)
(* across all subnets; after a MAC is ACKed an address, every active lease *)
(* of that MAC is the lease of that address (none is left in the subnet    *)
(* it came from).                                                          *)
(***************************************************************************)
C2_OneActivePerMac ==
    /\ \A m \in MACs : Cardinality(ActiveOf(leases, m)) <= 1
    /\ (last.type = "ACK" /\ last.yiaddr # UNSPECIFIED)
          => \A l \in ActiveOf(leases, last.mac) : l.ip = last.yiaddr

\* a MAC holding an active lease in one subnet has just been ACKed one in the other
C2_MovedAcrossSubnets ==
    /\ last.type = "ACK"
    /\ last.moved
    /\ \E l \in ActiveOf(leases, last.mac) : l.ip = last.yiaddr

(***************************************************************************)
(* C3.  If a reservation (subnet, R, ip) exists, no MAC other than R is    *)
(* offered ip or ACKed ip in that subnet: in every reachable state, every  *)
(* DISCOVER and REQUEST that is answered with ip comes from R.             *)
(* Refuted: create_reservation does not look at the leases, and both the   *)
(* existing-lease path of find_available_ip and renew_lease answer before  *)
(* any reservation of another MAC is looked at.                            *)
(***************************************************************************)
C3_ReservedOnlyToOwner ==
    \A p \in DiscoverPkts \cup RequestPkts :
        LET out == handle_packet(leases, reservations, now, p)
        IN  Grants(out.reply) =>
                \A r \in reservations :
                    ( /\ r.ip = out.reply.yiaddr
                      /\ NetworkContains(SubnetById(r.subnet_id).network, out.reply.yiaddr) )
                    => r.mac = p.mac

(***************************************************************************)
(* C4.  Every IP the allocator returns, every OFFER yiaddr and every lease *)
(* committed lies within [start_ip, end_ip] of its subnet and is neither   *)
(* the network nor the broadcast address, on the reservation path and the  *)
(* existing-lease path as well as on the pool scan.                        *)
(* Refuted: create_reservation stores any address, and the reservation     *)
(* path returns it unexamined.                                             *)
(***************************************************************************)
C4_AllocatedInPool ==
    /\ \A s \in SubnetIds, m \in MACs :
          LET ip == find_available_ip(leases, reservations, now, s, m)
          IN  ip # None => Allocable(SubnetById(s), Unwrap(ip))
    /\ \A p \in DiscoverPkts :
          LET out == handle_discover(leases, reservations, now, p)
          IN  out.reply.type = "OFFER" =>
                Allocable(Unwrap(find_subnet_for_client(p.src, GiaddrInto(p.giaddr))),
                          out.reply.yiaddr)
    /\ \A l \in leases : Allocable(SubnetById(l.subnet_id), l.ip)

(***************************************************************************)
(* C5.  After a client's DECLINE for X has been handled, every allocation  *)
(* in that subnet, for any MAC, skips X for the following 5 minutes: on    *)
(* the table a DECLINE of a held address leaves, and with no time passed,  *)
(* the allocator returns X to no one.                                      *)
(* Refuted: handle_decline only releases the lease; nothing records the    *)
(* decline, and the address is the first free one at once.                 *)
(***************************************************************************)
C5_DeclinedIpSkipped ==
    \A p \in DeclinePkts :
        LET out == handle_decline(leases, reservations, now, p)
        IN  (p.requested_ip # None /\ out.leases # leases) =>
                \A s \in SubnetIds, m \in MACs :
                    find_available_ip(out.leases, reservations, now, s, m)
                        # p.requested_ip

(***************************************************************************)
(* C6.  A DISCOVER is served from the subnet whose network contains giaddr *)
(* if giaddr is non-zero, and from the subnet whose network contains the   *)
(* datagram's source address if giaddr is zero; if there is none, nothing  *)
(* is sent.                                                                *)
(* Refuted: handle_discover passes packet.giaddr.into(), which is Some     *)
(* even for 0.0.0.0, so the source address is never used and a DISCOVER    *)
(* that no relay forwarded is dropped.                                     *)
(***************************************************************************)
C6_DiscoverSubnet ==
    \A p \in DiscoverPkts :
        LET key == IF p.giaddr # UNSPECIFIED THEN p.giaddr ELSE p.src
            located == { s \in Subnets : NetworkContains(s.network, key) }
            out == handle_discover(leases, reservations, now, p)
        IN  IF located = {} THEN out.reply = NoReply
            ELSE \E s \in located :
                    LET ip == find_available_ip(leases, reservations, now, s.id, p.mac)
                    IN  out.reply = IF ip = None THEN NoReply
                                    ELSE Reply("OFFER", Unwrap(ip))

(***************************************************************************)
(* C7.  Packets of one client (one MAC for DHCPv4, one DUID for DHCPv6)    *)
(* are handled one at a time and in receive order, so the replies to one   *)
(* client are sent in the order of its requests.                           *)
(* Refuted for DHCPv6: Dhcpv6Server::run spawns one task per datagram and  *)
(* nothing orders the tasks of one client.                                 *)
(***************************************************************************)
C7_RepliesInRequestOrder ==
    /\ \A i, j \in 1 .. Len(done4) :
          (i < j /\ done4[i].mac = done4[j].mac) => done4[i].n < done4[j].n
    /\ \A i, j \in 1 .. Len(sent6) :
          (i < j /\ sent6[i].duid = sent6[j].duid) => sent6[i].n < sent6[j].n

(***************************************************************************)
(* C8.  Different clients never block each other: while the handler of a   *)
(* packet of client A has not returned, the server can begin to handle the *)
(* next datagram when it comes from another client B.                      *)
(* Refuted: DhcpServer::run awaits handle_packet inside the loop, so        *)
(* nothing is read from the socket until the handler returns.              *)
(***************************************************************************)
C8_OtherClientNotBlocked ==
    ( /\ cur # None
      /\ rxq # <<>>
      /\ Head(rxq).pkt.mac # Unwrap(cur).pkt.mac ) => ENABLED Recv4

(***************************************************************************)
(* C9.  When a REQUEST is ACKed and the identical REQUEST is handled next, *)
(* at once or a second later, then after each of the two the store holds   *)
(* exactly one active lease for the MAC, both with the ACKed ip, and the   *)
(* lease_end after the second is at least the lease_end after the first.   *)
(***************************************************************************)
C9_RepeatedRequest ==
    \A p \in RequestPkts :
        LET first == handle_request(leases, reservations, now, p)
        IN  first.reply.type = "ACK" =>
              \A t2 \in {now, now + 1} :
                  LET second == handle_request(first.leases, reservations, t2, p)
                      held1 == ActiveOf(first.leases, p.mac)
                      held2 == ActiveOf(second.leases, p.mac)
                  IN  /\ Cardinality(held1) = 1
                      /\ Cardinality(held2) = 1
                      /\ \A a \in held1, b \in held2 :
                            /\ a.ip = first.reply.yiaddr
                            /\ b.ip = a.ip
                            /\ b.lease_end >= a.lease_end

\* a REQUEST has been ACKed, a second has passed, and the same REQUEST now
\* extends the lease it committed
C9_RepeatExtends ==
    \E p \in RequestPkts :
        /\ last.type = "ACK" /\ last.mac = p.mac /\ last.giaddr = p.giaddr
        /\ RequestTarget(p) = Some(last.yiaddr)
        /\ \E l \in ActiveOf(leases, p.mac) :
              /\ l.ip = last.yiaddr
              /\ LET again == handle_request(leases, reservations, now, p)
                 IN  /\ again.reply = Reply("ACK", l.ip)
                     /\ \E n \in ActiveOf(again.leases, p.mac) : n.lease_end > l.lease_end

C12_OutOfRangeNaked ==
    \A p \in RequestPkts :
        LET target == RequestTarget(p)
            subnet == IF target = None THEN None
                      ELSE find_subnet_for_client(Unwrap(target), GiaddrInto(p.giaddr))
        IN  ( /\ target # None
              /\ subnet # None
              /\ ~ ( Unwrap(subnet).start_ip <= Unwrap(target)
                     /\ Unwrap(target) <= Unwrap(subnet).end_ip ) )
            => handle_request(leases, reservations, now, p).reply = send_nak

(***************************************************************************)
(* C13.  A lease whose lease_end is earlier than now does not count as in  *)
(* use while its state is still active: is_ip_in_use reports its IP in use *)
(* only if another unexpired lease or a reservation holds it, and when     *)
(* nothing does, the pool scan returns the address (or a free one before   *)
(* it) to another MAC that has no binding of its own.                      *)
(***************************************************************************)
C13_LapsedLeaseNotInUse ==
    \A l \in leases :
        (l.state = "active" /\ l.lease_end < now) =>
            /\ is_ip_in_use(leases, reservations, now, l.subnet_id, l.ip)
                  <=> Held(l.subnet_id, l.ip)
            /\ \A m \in MACs :
                  ( /\ m # l.mac
                    /\ ~ OwnBinding(l.subnet_id, m)
                    /\ ~ Held(l.subnet_id, l.ip)
                    /\ l.ip \in PoolAddrs(SubnetById(l.subnet_id)) )
                  => LET ip == find_available_ip(leases, reservations, now,
                                                 l.subnet_id, m)
                     IN  ip # None /\ Unwrap(ip) <= l.ip

\* a MAC has just been offered or ACKed the address of another MAC's lapsed
\* lease, which the tick has not expired yet
C13_LapsedAddressHandedOn ==
    \E l \in leases :
        /\ l.state = "active" /\ l.lease_end < now
        /\ last.type \in {"OFFER", "ACK"}
        /\ last.mac # l.mac
        /\ last.yiaddr = l.ip

(***************************************************************************)
(* C14.  Every reply (OFFER, ACK or NAK) to a packet whose giaddr is       *)
(* non-zero is sent unicast to giaddr port 67 and never to the broadcast   *)
(* address, whatever the request's broadcast flag.                         *)
(* Refuted: send_reply broadcasts when the flag is set, relayed or not.    *)
(***************************************************************************)
C14_RelayedReplyUnicast ==
    \A p \in DiscoverPkts \cup RequestPkts : \A f \in Flags :
        ( /\ p.giaddr # UNSPECIFIED
          /\ handle_packet(leases, reservations, now, p).reply # NoReply )
        => send_reply(p.giaddr, is_broadcast(f))
              = [to |-> "RELAY", ip |-> p.giaddr, port |-> 67]

(***************************************************************************)
(* C19.  A DECLINE for (mac, requested_ip) that matches an active lease    *)
(* leaves that lease in state declined, a state distinct from released and *)
(* expired.                                                                *)
(* Refuted: handle_decline calls release_lease, which writes released; no  *)
(* statement of the store writes declined.                                 *)
(***************************************************************************)
C19_DeclineMarksDeclined ==
    \A p \in DeclinePkts : \A l \in leases :
        ( /\ p.requested_ip = Some(l.ip)
          /\ l.mac = p.mac
          /\ l.state = "active" )
        => \E d \in handle_decline(leases, reservations, now, p).leases :
              d.mac = l.mac /\ d.ip = l.ip /\ d.state = "declined"

(***************************************************************************)
(* C20.  create_reservation rejects, and stores nothing for, a reservation *)
(* whose ip is at that moment held by an active lease of a different MAC   *)
(* in the same subnet.                                                     *)
(* Refuted: create_reservation validates the MAC's format and inserts; it  *)
(* never reads dhcp_leases.                                                *)
(***************************************************************************)
C20_ReservationOfLeasedIpRejected ==
    \A s \in ReservableSubnets, m \in ReservedMACs, ip \in ReservableIps :
        ( \E l \in leases : /\ l.subnet_id = s /\ l.ip = ip /\ l.mac # m
                            /\ l.state = "active" /\ l.lease_end > now )
        => create_reservation(reservations, s, m, ip) = reservations

(***************************************************************************)
(* C15.  DNS follows the lease lifecycle: after a REQUEST is ACKed for a   *)
(* lease with a non-empty hostname, the forward zone eventually holds a    *)
(* dynamic A record FQDN -> ip and the reverse zone a dynamic PTR record   *)
(* for ip (stated here in the weaker form that lets the lease end first).  *)
(* Refuted: handle_request emits no lease event, and the zone manager the  *)
(* updater calls only logs, so no dynamic record is ever stored.           *)
(***************************************************************************)
AckedWithHostname(m) ==
    /\ last.type = "ACK" /\ last.mac = m
    /\ HostnameOf(m) # <<>>
    /\ \E l \in leases : l.mac = m /\ l.ip = last.yiaddr /\ l.state = "active"

DnsRecorded(m) ==
    \E l \in leases :
        /\ l.mac = m /\ l.state = "active"
        /\ \E r \in dns_records :
              /\ r.is_dynamic /\ r.zone_id = ForwardZone /\ r.record_type = "A"
              /\ r.name = Fqdn(HostnameOf(m), default_domain) /\ r.value = l.ip
        /\ \E r \in dns_records :
              /\ r.is_dynamic /\ r.zone_id = ReverseZone /\ r.record_type = "PTR"
              /\ r.value = Fqdn(HostnameOf(m), default_domain)

C15_DnsFollowsLease ==
    \A m \in MACs :
        AckedWithHostname(m) ~> (DnsRecorded(m) \/ ActiveOf(leases, m) = {})

(***************************************************************************)
(* C16.  Every dynamic upsert and every dynamic removal the updater does   *)
(* for a lease event raises the serial of the forward zone and of the      *)
(* reverse zone by exactly 1.                                              *)
(* Refuted: add_dynamic_record and remove_dynamic_record write nothing;    *)
(* both serials stay as they were.                                         *)
(***************************************************************************)
C16_EventBumpsBothSerials ==
    \A m \in MACs, ip \in HostIps :
        LET st == DnsState(serial_number, dns_records)
            bumped(out) == \A z \in Zones :
                              out.state.serial[z] = serial_number[z] + 1
        IN  /\ bumped(on_lease_created(st, Some(HostnameOf(m)), ip))
            /\ bumped(on_lease_renewed(st, Some(HostnameOf(m)), ip))
            /\ bumped(on_lease_released(st, Some(HostnameOf(m))))
            /\ bumped(on_lease_expired(st, Some(HostnameOf(m))))

(***************************************************************************)
(* C17.  For any zone, the serial_number after a successful record         *)
(* mutation is greater than or equal to the one before it, over any        *)
(* sequence of mutations.                                                  *)
(* Refuted: each handler stores the second it read before its UPDATE ran;  *)
(* of two requests in flight the one that read the clock first can write   *)
(* last, and the serial goes down.                                         *)
(***************************************************************************)
C17_SerialNonDecreasing ==
    [][\A z \in Zones : serial_number'[z] >= serial_number[z]]_vars

(***************************************************************************)
(* C18.  A lease event (created, renewed, released or expired) whose       *)
(* hostname is the empty string is a no-op for the updater: no record and  *)
(* no serial changes, and no failure is reported.                          *)
(* Refuted: add_dhcp_record and remove_dhcp_record return                  *)
(* Err("Hostname cannot be empty"), which the event handlers pass on.      *)
(***************************************************************************)
C18_EmptyHostnameNoOp ==
    \A ip \in HostIps :
        LET st == DnsState(serial_number, dns_records)
        IN  /\ on_lease_created(st, Some(<<>>), ip) = Ok(st)
            /\ on_lease_renewed(st, Some(<<>>), ip) = Ok(st)
            /\ on_lease_released(st, Some(<<>>)) = Ok(st)
            /\ on_lease_expired(st, Some(<<>>)) = Ok(st)

(***************************************************************************)
(* C21.  create_subnet accepts a subnet only if start_ip <= end_ip,        *)
(* start_ip and end_ip both lie inside network, gateway lies inside        *)
(* network, and network is a CIDR of prefix length 8..30; a request that   *)
(* breaks any of these stores nothing.                                     *)
(* Refuted: the handler tests the prefix length and start_ip <= end_ip     *)
(* only; a range and a gateway outside the network are stored.             *)
(***************************************************************************)
SubnetInvariants(req) ==
    /\ req.network # None
    /\ Unwrap(req.network).prefix \in 8 .. 30
    /\ req.start_ip <= req.end_ip
    /\ NetworkContains(Unwrap(req.network), req.start_ip)
    /\ NetworkContains(Unwrap(req.network), req.end_ip)
    /\ NetworkContains(Unwrap(req.network), req.gateway)

C21_SubnetStoredOnlyIfValid ==
    (arg.fn = "create_subnet" /\ ret # None /\ Unwrap(ret) # {})
        => SubnetInvariants(arg.v)

(***************************************************************************)
(* C22.  For every byte string p of at least 236 bytes,                    *)
(* parse(to_bytes(parse(p))) equals parse(p): the header fields are equal  *)
(* and the option lists are equal element by element, in the same order.   *)
(***************************************************************************)
C22_ParseRoundTrip ==
    (arg.fn = "parse" /\ ret # None /\ Unwrap(ret) # None)
        => parse(to_bytes(Unwrap(Unwrap(ret)))) = Unwrap(ret)

\* a datagram with two options or more has been parsed, and to_bytes does
\* not give the datagram back (pad bytes, a cut option, the padding to 300)
C22_ParsedWithOptions ==
    /\ arg.fn = "parse" /\ ret # None /\ Unwrap(ret) # None
    /\ Len(arg.v) >= 236
    /\ Len(Unwrap(Unwrap(ret)).options) >= 2
    /\ Unwrap(Unwrap(ret)).xid # 0
    /\ to_bytes(Unwrap(Unwrap(ret))) # arg.v

(***************************************************************************)
(* C23.  All ADVERTISE and REPLY messages one DHCPv6 server process sends  *)
(* carry the same server identifier (option 2); the server DUID of the     *)
(* REPLY to a client's REQUEST is that of the ADVERTISE sent before.       *)
(* Refuted: every handler calls generate_server_duid, which puts the       *)
(* clock's reading of that moment into the DUID.                           *)
(***************************************************************************)
C23_OneServerDuid ==
    \A i, j \in 1 .. Len(sent6) : sent6[i].server_duid = sent6[j].server_duid

(***************************************************************************)
(* C24.  A DHCPv6 REPLY with status code 0 (Success) to a REQUEST, RENEW,  *)
(* REBIND or CONFIRM is sent only after a binding for the client's         *)
(* (DUID, IAID) has been committed in the store.                           *)
(* Refuted: handle_request builds the REPLY with status Success and never  *)
(* touches the database.                                                   *)
(***************************************************************************)
C24_SuccessOnlyAfterCommit ==
    \A i \in 1 .. Len(sent6) :
        (sent6[i].type = "REPLY" /\ sent6[i].status = Some(0))
            => \E b \in bindings6 : b.duid = sent6[i].duid

(***************************************************************************)
(* C25.  request_prefix for a (DUID, IAID) without a delegated record      *)
(* reserves the next unused prefix: no two delegated records of different  *)
(* (DUID, IAID) keys carry the same prefix.                                *)
(* Refuted: allocate_prefix computes the prefix from total_prefixes minus  *)
(* available_prefixes, which nothing ever changes, and never reads the     *)
(* table; every client is given the pool's first prefix.                   *)
(***************************************************************************)
C25_DelegatedPrefixesDistinct ==
    \A d1, d2 \in delegations :
        ( /\ d1.state = "delegated" /\ d2.state = "delegated"
          /\ <<d1.duid, d1.iaid>> # <<d2.duid, d2.iaid>> )
        => d1.prefix # d2.prefix

(***************************************************************************)
(* C26.  A delegated-prefix record changes state only so: request_prefix   *)
(* makes it delegated; release_prefix by its own (DUID, IAID, prefix)      *)
(* makes it available; the expiration pass makes it expired only if it was *)
(* delegated with lease_end < now; the reclaim pass makes it available     *)
(* only if it was expired with lease_end older than the grace period.      *)
(* As claimed, release_prefix acts on a delegated record only; the code's  *)
(* UPDATE has no test of the state, so the statement that holds lets       *)
(* release_prefix act on a record in any state.                            *)
(***************************************************************************)
PdKeys == DUIDs \X IAIDs

PdRow(ds, k) == { d \in ds : d.duid = k[1] /\ d.iaid = k[2] }

PdState(ds, k) == IF PdRow(ds, k) = {} THEN "none" ELSE (CHOOSE d \in PdRow(ds, k) : TRUE).state

\* what request_prefix and the two passes may do to the record of key k
PdOtherChangesLawful(k) ==
    /\ \A k2 \in PdKeys, len \in RequestedLengths, hint \in LifetimeHints :
          LET after == request_prefix(delegations, now, k2[1], k2[2], len, hint)
          IN  PdState(after, k) # PdState(delegations, k)
                  => k2 = k /\ PdState(after, k) = "delegated"
    /\ LET after == cleanup_expired(delegations, now)
       IN  PdState(after, k) # PdState(delegations, k)
               => /\ PdState(after, k) = "expired"
                  /\ \E d \in PdRow(delegations, k) :
                        d.state = "delegated" /\ d.lease_end < now
    /\ \A g \in GracePeriods :
          LET after == reclaim_expired(delegations, now, g)
          IN  PdState(after, k) # PdState(delegations, k)
                  => /\ PdState(after, k) = "available"
                     /\ \E d \in PdRow(delegations, k) :
                           d.state = "expired" /\ d.lease_end < now - g * 3600

\* release_prefix changes the state of a record only if (DUID, IAID, prefix)
\* are its own, and then to available
PdReleaseOwnOnly(k) ==
    \A k2 \in PdKeys, prefix \in ReleasedPrefixes :
        LET after == release_prefix(delegations, now, k2[1], k2[2], prefix)
        IN  PdState(after, k) # PdState(delegations, k)
                => /\ k2 = k
                   /\ \E d \in PdRow(delegations, k) : d.prefix = prefix
                   /\ PdState(after, k) = "available"

\* as claimed: release_prefix changes the state of a delegated record only
C26_StateChanges ==
    \A k \in PdKeys :
        /\ PdOtherChangesLawful(k)
        /\ PdReleaseOwnOnly(k)
        /\ \A prefix \in ReleasedPrefixes :
              LET after == release_prefix(delegations, now, k[1], k[2], prefix)
              IN  PdState(after, k) # PdState(delegations, k)
                      => PdState(delegations, k) = "delegated"

\* C26 as it holds: release_prefix makes its own record available whatever
\* state the record is in
C26_StateChangesReleaseAnyState ==
    \A k \in PdKeys : PdOtherChangesLawful(k) /\ PdReleaseOwnOnly(k)

\* an expired record, past its lease_end, that its owner's release_prefix
\* makes available at once, while another record has been reclaimed or
\* released before
C26_ExpiredReleasable ==
    \E d \in delegations :
        /\ d.state = "expired" /\ d.lease_end < now
        /\ PdState(release_prefix(delegations, now, d.duid, d.iaid, d.prefix),
                   <<d.duid, d.iaid>>) = "available"
        /\ \E d2 \in delegations : d2.state = "available"

\* the codes of a reply's options
OptionCodes(options) == { options[i].code : i \in DOMAIN options }

\* get_option: the data of the first option of that code
OptionData(options, code) ==
    options[CHOOSE i \in DOMAIN options :
                /\ options[i].code = code
                /\ \A j \in DOMAIN options : options[j].code = code => i <= j].data

\* C28: every OFFER and every ACK with a non-zero yiaddr carries options 53,
\* 54, 1, 3, 28, 51, 58 and 59, and its lease time is the lease_duration of
\* the subnet the address belongs to; on the renewal path as for new leases,
\* relayed or not
C28_AddressRepliesCarryOptions ==
    \A p \in DiscoverPkts \cup RequestPkts :
        LET out == handle_packet(leases, reservations, now, p)
        IN  (out.reply.type \in {"OFFER", "ACK"} /\ out.reply.yiaddr # UNSPECIFIED)
                => /\ {53, 54, 1, 3, 28, 51, 58, 59} \subseteq OptionCodes(out.options)
                   /\ \A s \in Subnets :
                          NetworkContains(s.network, out.reply.yiaddr)
                              => OptionData(out.options, 51)
                                     = to_be_bytes(s.lease_duration, 4)

\* C30: handling a DISCOVER, an INFORM or a message of another type leaves
\* every lease as it was (a handler has no write to dhcp_reservations at
\* all: its result is the lease table and the reply), and the reply to an
\* INFORM is an ACK with yiaddr 0.0.0.0
C30_NoLeaseStateTouched ==
    \A p \in DiscoverPkts \cup InformPkts \cup OtherPkts :
        LET out == handle_packet(leases, reservations, now, p)
        IN  /\ out.leases = leases
            /\ p.type = "INFORM" => out.reply = Reply("ACK", UNSPECIFIED)

\* an OFFER has been sent to a client that has no lease row at all
C30_OfferedNotPersisted ==
    /\ last.type = "OFFER"
    /\ \A l \in leases : l.mac # last.mac

\* floor(7 * d / 8) for d >= 0, computed without the sevenfold
FloorSevenEighths(d) == d - (d \div 8) - (IF d % 8 = 0 THEN 0 ELSE 1)

\* a <= b for two u32 given as their four bytes, most significant first
U32BytesLeq(a, b) ==
    LET ah == from_be_bytes(SubSeq(a, 1, 2))
        bh == from_be_bytes(SubSeq(b, 1, 2))
    IN  ah < bh \/ (ah = bh /\ from_be_bytes(SubSeq(a, 3, 4))
                                  <= from_be_bytes(SubSeq(b, 3, 4)))

\* C29: for every lease_duration L >= 0 of an i32, the options built for the
\* subnet carry lease time L, T1 = floor(L / 2) and T2 = floor(7 * L / 8),
\* and T1 <= T2 <= L
C29_LeaseTimes ==
    (arg.fn = "build_subnet_options" /\ ret # None
        /\ arg.v.subnet.lease_duration >= 0)
        => LET d == arg.v.subnet.lease_duration
               built == Unwrap(ret)
           IN  /\ built # None
               /\ LET options == Unwrap(built)
                      lease_time == OptionData(options, 51)
                      t1 == OptionData(options, 58)
                      t2 == OptionData(options, 59)
                  IN  /\ lease_time = to_be_bytes(d, 4)
                      /\ t1 = to_be_bytes(d \div 2, 4)
                      /\ t2 = to_be_bytes(FloorSevenEighths(d), 4)
                      /\ U32BytesLeq(t1, t2)
                      /\ U32BytesLeq(t2, lease_time)

\* six groups of two hex digits with ":" or "-" between them
IsSixGroups(mac) ==
    /\ Len(mac) = 17
    /\ \A i \in 1 .. 17 :
          IF i % 3 = 0 THEN mac[i] \in {":", "-"}
          ELSE \E j \in 1 .. 16 : mac[i] \in {LowerHex[j], UpperHex[j]}

\* the value of a hex digit, either case
HexValue(c) == CHOOSE v \in 0 .. 15 : c \in {LowerHex[v + 1], UpperHex[v + 1]}

\* the six bytes the groups spell
GroupBytes(mac) ==
    [k \in 1 .. 6 |-> 16 * HexValue(mac[3 * k - 2]) + HexValue(mac[3 * k - 1])]

\* C27: mac_string_to_bytes accepts exactly the strings of six two-hex-digit
\* groups separated by ":" or "-" and returns the six bytes they spell;
\* bytes_to_mac_string gives the lowercase colon-separated form, and
\* mac_string_to_bytes(bytes_to_mac_string(b)) = b for every 6-byte b
C27_MacCodecs ==
    /\ (arg.fn = "mac_string_to_bytes" /\ ret # None)
          => Unwrap(ret) = IF IsSixGroups(arg.v) THEN Some(GroupBytes(arg.v))
                           ELSE None
    /\ (arg.fn = "bytes_to_mac_string" /\ ret # None)
          => LET text == Unwrap(ret)
             IN  /\ Len(text) = 17
                 /\ \A i \in 1 .. 17 :
                       IF i % 3 = 0 THEN text[i] = ":"
                       ELSE \E j \in 1 .. 16 : text[i] = LowerHex[j]
                 /\ mac_string_to_bytes(text) = Some(arg.v)

\* bytes with a value below 16 and with letter digits have been rendered
C27_PaddedRendered ==
    /\ arg.fn = "bytes_to_mac_string"
    /\ arg.v = <<0, 10, 171, 255, 10, 0>>
    /\ ret = Some(<<"0", "0", ":", "0", "a", ":", "a", "b", ":", "f", "f", ":",
                    "0", "a", ":", "0", "0">>)

\* C31: a RELEASE changes at most the one lease that is active and has the
\* sender's MAC and the packet's ciaddr, and only its state, to released; a
\* RELEASE matching no active lease changes nothing; no reply is sent
C31_ReleaseOwnLeaseOnly ==
    \A p \in ReleasePkts :
        LET out == handle_packet(leases, reservations, now, p)
            matching == { l \in leases : /\ l.mac = p.mac /\ l.ip = p.ciaddr
                                         /\ l.state = "active" }
            changed == leases \ out.leases
        IN  /\ out.reply = NoReply
            /\ changed \subseteq matching
            /\ Cardinality(changed) <= 1
            /\ out.leases \ leases
                   = { [l EXCEPT !.state = "released"] : l \in changed }
            /\ matching = {} => out.leases = leases

\* a lease has been released while another client's lease stays active
\* under a RELEASE that names its address from the released client's MAC
C31_OthersReleaseIgnored ==
    \E l \in leases, l2 \in leases, p \in ReleasePkts :
        /\ l.state = "released" /\ l2.state = "active"
        /\ p.mac = l.mac /\ p.mac # l2.mac /\ p.ciaddr = l2.ip
        /\ handle_packet(leases, reservations, now, p).leases = leases

\* the client's lease is active and past its lease_end
Lapsed(mac) ==
    \E l \in leases : l.mac = mac /\ l.state = "active" /\ l.lease_end < now

\* C32: with the expiration tick fairly scheduled, a lease that is active
\* with lease_end < now eventually is not (expired, released or renewed),
\* and a tick that fails leaves the cleanup task running
C32_LapsedLeaseLeaves ==
    /\ [](cleanup_task = "running")
    /\ \A mac \in MACs : Lapsed(mac) ~> ~ Lapsed(mac)

\* the tick has expired a lease
C32_TickExpired ==
    \E l \in leases : l.state = "expired" /\ l.lease_end < now

AddrBit(addr, b) == (addr[((b - 1) \div 8) + 1] \div (2 ^ (7 - ((b - 1) % 8)))) % 2

\* C34: for every length hint of 0..255 a client may send, the prefix
\* allocated for request_prefix is computed without overflow or underflow,
\* its length is the pool's delegation_length, which is greater than the
\* pool's prefix_length, and its first prefix_length bits are the pool's
C34_PrefixInsidePool ==
    (arg.fn = "allocate_prefix" /\ ret # None)
        => LET out == Unwrap(ret)
               pool == DefaultPool
           IN  /\ ~ out.panicked
               /\ out.value # None
                     => LET got == Unwrap(out.value)
                        IN  /\ got.length = pool.delegation_length
                            /\ got.length > pool.prefix_length
                            /\ \A b \in 1 .. pool.prefix_length :
                                  AddrBit(got.prefix, b) = AddrBit(pool.prefix, b)

RECURSIVE OptionsOf(_)
\* the options an option area spells: pad bytes skipped, 255 the end, an
\* option without its length byte or with less data than its length says
\* the end as well
OptionsOf(area) ==
    IF area = <<>> \/ Head(area) = 255 THEN <<>>
    ELSE IF Head(area) = 0 THEN OptionsOf(Tail(area))
    ELSE IF Len(area) < 2 \/ Len(area) < 2 + area[2] THEN <<>>
    ELSE <<[code |-> area[1], data |-> SubSeq(area, 3, 2 + area[2])]>>
             \o OptionsOf(SubSeq(area, 3 + area[2], Len(area)))

\* C35: parse fails exactly on a frame shorter than 236 bytes; a frame
\* without the magic cookie at bytes 236..240 parses with no options; behind
\* the cookie pad bytes are skipped, option 255 ends the options, and an
\* option cut short ends them with the options collected so far
C35_ParseErrorsOnlyWhenShort ==
    (arg.fn = "parse" /\ ret # None)
        => LET data == arg.v
               out == Unwrap(ret)
           IN  /\ out = None <=> Len(data) < 236
               /\ out # None
                     => Unwrap(out).options
                          = IF Len(data) >= 240 /\ SubSeq(data, 237, 240) = MAGIC_COOKIE
                            THEN OptionsOf(SubSeq(data, 241, Len(data)))
                            ELSE <<>>

\* a frame whose option area holds a whole option and then an option code
\* with nothing behind it has been parsed to the one option
C35_CutOptionParsed ==
    /\ arg.fn = "parse" /\ ret # None /\ Unwrap(ret) # None
    /\ Len(arg.v) = 244
    /\ SubSeq(arg.v, 237, 244) = MAGIC_COOKIE \o <<2, 1, 0, 1>>
    /\ Unwrap(Unwrap(ret)).options = <<[code |-> 2, data |-> <<0>>]>>

RECURSIVE CutShort6(_)
\* an option area that ends inside an option's 4-byte header or inside the
\* data its length declares
CutShort6(area) ==
    /\ area # <<>>
    /\ \/ Len(area) < 4
       \/ LET len == area[3] * 256 + area[4]
          IN  \/ Len(area) < 4 + len
              \/ CutShort6(SubSeq(area, 5 + len, Len(area)))

\* C36: parsing a DHCPv6 frame fails when the frame is shorter than the
\* 4-byte header, or when an option's header or declared length runs past
\* the end of the frame
C36_TruncatedFrameRejected ==
    (arg.fn = "parse_packet" /\ ret # None)
        => ( (Len(arg.v) < 4 \/ CutShort6(SubSeq(arg.v, 5, Len(arg.v))))
                => Unwrap(ret) = None )

\* the number of chaddr bytes that are the client's address
AddressBytes(packet) == IF packet.hlen < 6 THEN packet.hlen ELSE 6

\* C37: the MAC under which a packet's leases are looked up and stored is
\* made of the first hlen bytes of chaddr, capped at 6: packets of the same
\* hlen that agree in those bytes have the same MAC
C37_MacIsFirstHlenBytes ==
    (arg.fn = "get_client_mac" /\ ret # None)
        => \A other \in ChaddrPackets :
              ( /\ other.hlen = arg.v.hlen
                /\ SubSeq(other.chaddr, 1, AddressBytes(other))
                      = SubSeq(arg.v.chaddr, 1, AddressBytes(arg.v)) )
                  => get_client_mac(other) = Unwrap(ret)

\* the store holds an active, unexpired lease of ip to mac
HoldsLease(ls, t, mac, ip) ==
    \E l \in ls : /\ l.mac = mac
                   /\ l.ip = ip
                   /\ l.state = "active"
                   /\ l.lease_end > t

\* C38: an ACK with yiaddr = ip sent to a MAC in answer to a REQUEST finds
\* in the store, at that moment, an active lease (mac, ip) with
\* lease_end > now, however the handler's SELECT and UPDATE interleave with
\* the expiration tick and a forced release: in every state where a renewal
\* has found its lease, the table its UPDATE leaves holds that lease
C38_AckedLeaseIsActive ==
    renewing # None
        => HoldsLease(renew_lease_update(leases, now, Unwrap(renewing)), now,
                      Unwrap(renewing).packet.mac, Unwrap(renewing).lease.ip)

\* the MACs that hold ip in a subnet: a lease in state active with
\* lease_end > t
Holders(ls, t, subnet_id, ip) ==
    { l.mac : l \in { h \in ls : /\ h.subnet_id = subnet_id
                                 /\ h.ip = ip
                                 /\ h.state = "active"
                                 /\ h.lease_end > t } }

\* C39: at no time do two different MACs both hold a lease in state active
\* with lease_end > now on the same (subnet_id, ip); a REQUEST of an earlier
\* holder, whose lease lapsed and whose address went to another MAC, does
\* not extend the earlier lease
C39_OneUnexpiredHolderPerIp ==
    \A s \in Subnets : \A ip \in s.start_ip .. s.end_ip :
        Cardinality(Holders(leases, now, s.id, ip)) <= 1

\* name ends with "." followed by zone: the labels of zone are the last
\* labels of name, and name has at least one label before them
InsideZone(name, zone) ==
    /\ Len(name) > Len(zone)
    /\ SubSeq(name, Len(name) - Len(zone) + 1, Len(name)) = zone

\* C40: for every IPv4 network of prefix length 8..30 and every address
\* inside it, the PTR name of the address lies inside the reverse zone of
\* the network
C40_PtrNameInsideReverseZone ==
    (arg.fn = "network_to_reverse_zone" /\ ret # None)
        => \A ip \in Ipv4Addrs :
              contains(arg.v, ip)
                  => InsideZone(ipv4_to_ptr_name(ip), Unwrap(ret))

=============================================================================
